---- MODULE Spec2Model ----
(***************************************************************************)
(* A model of the FastLink worker (EithonX/fast-link):                     *)
(*   - the MediaInfo analysis driver (app/lib/logger.server.ts, class      *)
(*     MediaInfo): analyzeData, its read loop and the seek-word decoder;   *)
(*   - the route handlers /info, /p/, /telegram and the resolver           *)
(*     getFileInfo (app/lib/logger.server.ts, app/lib/file-info.ts);       *)
(*   - the URL validator validateUrl (app/lib/server-utils.ts).            *)
(*                                                                         *)
(* JavaScript runs one handler at a time.  An action of the model is one   *)
(* handler segment: the code that runs from a call or a promise            *)
(* continuation up to the next suspension point.  A synchronous chunk      *)
(* provider returns on the caller's stack: the variable `stack` names the  *)
(* run whose handler is still on the stack, and no other handler can run   *)
(* until it has returned.                                                  *)
(***************************************************************************)
EXTENDS Integers, Sequences, FiniteSets, TLC

VARIABLES
  isAnalyzing,   \* MediaInfo.isAnalyzing
  chunkSize,     \* MediaInfo.options.chunkSize
  provider,      \* the readChunk given to analyzeData: "sync" returns bytes, "async" a promise
  instance,      \* identity of MediaInfo.mediainfoModuleInstance
  fedBy,         \* the runs that have called into the current core instance
  run,           \* per analyzeData call: its closure (offset, fileSize, ...)
  stack,         \* the run whose handler is on the JavaScript stack, 0 if none
  ev,            \* the handler segment that ran last, and the core's answer in it
  decoded,       \* seek-word decoder under test: the words and the value returned
  rq,            \* the route request being served
  netlog,        \* the outbound requests issued while serving rq
  validated,     \* validateUrl under test: the URL and whether the call threw
  fin,           \* finalize under test: the format, the core's text, what the caller got
  disp,          \* Content-Disposition under test: the filename, the header, what a client reads
  link,          \* fast link under test: the URL and filename, the link, what the proxy decodes
  fastLinkForm,  \* FastLinkForm: its state, and the requests it has in flight
  history        \* useHistory: the list in memory and the one in localStorage

vars ==
  <<isAnalyzing, chunkSize, provider, instance, fedBy, run, stack, ev, decoded, rq, netlog,
    validated, fin, disp, link, fastLinkForm, history>>

driverVars == <<isAnalyzing, chunkSize, provider, instance, fedBy, run, stack, ev>>
routeVars == <<rq, netlog, validated>>
unitVars == <<fin, disp, link, fastLinkForm, history>>

----------------------------------------------------------------------------
(* Bounds of the model *)

MaxRuns == 3        \* analyzeData calls made on the one driver
MaxFileSize == 2    \* file sizes 0..MaxFileSize
MaxChunk == 2       \* options.chunkSize in 1..MaxChunk
WordBits == 14      \* width of a seek word (32 in the program; TLC integers are 32-bit)
MaxTracks == 2      \* tracks in media.track of a result
MaxFields == 2      \* keys of a track besides '@type'
MaxName == 2        \* characters of a filename
MaxItems == 2       \* items the history keeps (MAX_ITEMS, 50 in the program)

Min(a, b) == IF a <= b THEN a ELSE b

----------------------------------------------------------------------------
(* MediaInfo: the seek-word decoder *)

\* const MAX_UINT32_PLUS_ONE = 2 ** 32, at the model's word width
MAX_UINT32_PLUS_ONE == 2 ^ WordBits

\* A slip that forgets the unsigned correction of a negative low word.
openBufferContinueGotoGet_signedLow(seekToLow, seekToHigh) ==
  IF seekToLow = -1 /\ seekToHigh = -1
    THEN -1
    ELSE seekToLow + seekToHigh * MAX_UINT32_PLUS_ONE

openBufferContinueGotoGet(seekToLow, seekToHigh) ==
  IF seekToLow = -1 /\ seekToHigh = -1
    THEN -1
    ELSE IF seekToLow < 0
      THEN seekToLow + MAX_UINT32_PLUS_ONE + seekToHigh * MAX_UINT32_PLUS_ONE
      ELSE seekToLow + seekToHigh * MAX_UINT32_PLUS_ONE

----------------------------------------------------------------------------
(* MediaInfo: analyzeData *)

Runs == 1 .. MaxRuns
Forms == {"callback", "promise"}
Providers == {"sync", "async"}

\* What the core may leave in its two seek words after a chunk.
SeekWords ==
  {<<-1, -1>>, <<0, 0>>, <<1, 0>>, <<MaxFileSize + 1, 0>>, <<-12, -1>>}

NoReq == [size |-> 0, offset |-> 0]

\* base: what a synchronous provider's run has at the bottom of its stack,
\*       "call" (analyzeData itself) or "then" (the size promise's continuation)
\* pending: the readChunk calls of the run that have not been answered yet
IdleRun ==
  [pc |-> "idle", form |-> "callback", fileSize |-> 0,
   offset |-> 0, req |-> NoReq, nFetch |-> 0, clean |-> TRUE,
   base |-> "none", pending |-> 0]

\* A run that has ended: its closure is gone.
EndedRun == [IdleRun EXCEPT !.pc = "done"]

\* The last handler segment: which one, for which run, and what it saw.
\*   outcome:  what the segment delivered for the run, "none" if nothing
\*   via:      how: "callback" (the run's callback was called), or "throw"
\*             (the exception left analyzeData; the promise form rejects with it)
\*   inOrder:  the chunk handled was the answer to readChunk at the run's offset
\*   finalize: n bytes came, coreDone, and the ended run's fileSize, nFetch, clean
\*   continue: the core's seek words; without a seek, the n bytes submitted
\*             and the offset they were read from
\*   form:     of a run ended by an exception nobody caught: how the run was
\*             started (the promise form rejects its promise with it)
\*   init:     the offsets given to openBufferInit in the segment
\*   fed:      the segment called into a core instance that no openBufferInit
\*             had been called on
NoEv ==
  [op |-> "none", r |-> 0, outcome |-> "none", via |-> "none", inOrder |-> TRUE,
   n |-> 0, low |-> 0, high |-> 0, from |-> 0, init |-> {}, fed |-> FALSE,
   form |-> "callback",
   nFetch |-> 0, clean |-> TRUE, fileSize |-> 0, coreDone |-> FALSE]

InFlight(r) == run[r].pc \in {"awaitSize", "fetching"}

\* const safeSize = Math.min(this.options.chunkSize, fileSize - offset)
safeSize_noClamp(fileSize, offset) == chunkSize

safeSize(fileSize, offset) == Min(chunkSize, fileSize - offset)

\* The byte counts a provider may answer a request with: at most what was asked.
Returnable(req) ==
  IF req.size <= 0 \/ req.offset < 0 THEN {0} ELSE 0 .. req.size

\* A plain run: so far the core has neither asked for a seek nor reported
\* completion, and every answer of the provider was as long as asked.  The
\* field clean says so, and nFetch counts the readChunk calls of a plain run
\* (0 once the run is no longer plain).
Counted(clean, n) == IF clean THEN n ELSE 0

\* getChunk: compute safeSize and call readChunk(safeSize, offset)
getChunk(rec, off) ==
  [rec EXCEPT !.pc = "fetching", !.offset = off,
              !.req = [size |-> safeSize(rec.fileSize, off), offset |-> off],
              !.pending = rec.pending + 1,
              !.nFetch = Counted(rec.clean, rec.nFetch + 1)]

\* dataValue.then(readNextChunk) / readNextChunk(dataValue): the one pending
\* readChunk call has been answered
answered_stillPending(rec) == rec

answered(rec) == [rec EXCEPT !.pending = rec.pending - 1]

\* The chunk given to readNextChunk is the answer to readChunk(safeSize, offset)
InOrder(rec) == rec.req.offset = rec.offset

\* continueBuffer: the offset after a chunk of n bytes and the decoded seekTo
nextOffset_alwaysSeek(offset, n, seekTo) == seekTo

\* A slip that advances by the size asked for instead of the bytes returned.
nextOffset_bySizeAsked(offset, n, seekTo) ==
  IF seekTo = -1 THEN offset + chunkSize ELSE seekTo

nextOffset(offset, n, seekTo) ==
  IF seekTo = -1 THEN offset + n ELSE seekTo

\* The callback given to the inner analyzeData: in the promise form it is
\* resultCb, which clears isAnalyzing before it settles the promise.
AfterCallback(form, flag) == IF form = "promise" THEN FALSE ELSE flag

\* The bottom of the stack a chunk is handled on: with a synchronous provider
\* the whole run is on the stack of the segment that called runReadDataLoop.
Base(b) == IF provider = "sync" THEN b ELSE "none"

\* analyzeData while isAnalyzing: callback('', Error('cannot start ...'))
analyzeDataRejected(r, f) ==
  /\ stack = 0
  /\ run[r].pc = "idle"
  /\ \A q \in Runs : q < r => run[q].pc # "idle"
  /\ isAnalyzing
  /\ isAnalyzing' = AfterCallback(f, isAnalyzing)
  /\ run' = [run EXCEPT ![r] = EndedRun]
  /\ ev' = [NoEv EXCEPT !.op = "rejected", !.r = r, !.outcome = "concurrent",
                      !.via = "callback"]
  /\ UNCHANGED <<chunkSize, provider, instance, fedBy, stack, decoded, routeVars, unitVars>>

\* analyzeData admitted, size given as a number: reset(), isAnalyzing = true,
\* runReadDataLoop(size): openBufferInit(size, 0) and the first getChunk()
analyzeDataNumber(r, f, fs) ==
  /\ stack = 0
  /\ run[r].pc = "idle"
  /\ \A q \in Runs : q < r => run[q].pc # "idle"
  /\ ~isAnalyzing
  /\ instance' = instance + 1
  /\ isAnalyzing' = TRUE
  /\ fedBy' = {r}
  /\ run' = [run EXCEPT ![r] =
       getChunk([IdleRun EXCEPT !.form = f, !.fileSize = fs, !.base = Base("call")], 0)]
  /\ stack' = IF provider = "sync" THEN r ELSE 0
  /\ ev' = [NoEv EXCEPT !.op = "admitted", !.r = r, !.init = {0}]
  /\ UNCHANGED <<chunkSize, provider, decoded, routeVars, unitVars>>

\* analyzeData admitted, size given as a promise: reset(), isAnalyzing = true,
\* then wait for the size
analyzeDataPromise(r, f, fs) ==
  /\ stack = 0
  /\ run[r].pc = "idle"
  /\ \A q \in Runs : q < r => run[q].pc # "idle"
  /\ ~isAnalyzing
  /\ instance' = instance + 1
  /\ isAnalyzing' = TRUE
  /\ fedBy' = {}
  /\ run' = [run EXCEPT ![r] =
       [IdleRun EXCEPT !.pc = "awaitSize", !.form = f, !.fileSize = fs]]
  /\ ev' = [NoEv EXCEPT !.op = "admitted", !.r = r]
  /\ UNCHANGED <<chunkSize, provider, stack, decoded, routeVars, unitVars>>

\* fileSizeValue.then(runReadDataLoop)
runReadDataLoop(r) ==
  /\ stack = 0
  /\ run[r].pc = "awaitSize"
  /\ fedBy' = fedBy \cup {r}
  /\ run' = [run EXCEPT ![r] = getChunk([run[r] EXCEPT !.base = Base("then")], 0)]
  /\ stack' = IF provider = "sync" THEN r ELSE 0
  /\ ev' = [NoEv EXCEPT !.op = "sizeResolved", !.r = r, !.init = {0}]
  /\ UNCHANGED <<isAnalyzing, chunkSize, provider, instance, decoded, routeVars, unitVars>>

\* fileSizeValue ... .catch: callback(null, error)
sizeRejected(r) ==
  /\ stack = 0
  /\ run[r].pc = "awaitSize"
  /\ isAnalyzing' = AfterCallback(run[r].form, isAnalyzing)
  /\ run' = [run EXCEPT ![r] = EndedRun]
  /\ ev' = [NoEv EXCEPT !.op = "sizeRejected", !.r = r, !.outcome = "sizeError",
                      !.via = "callback"]
  /\ UNCHANGED <<chunkSize, provider, instance, fedBy, stack, decoded, routeVars, unitVars>>

\* The provider's answer can be handled: at once on the stack of a synchronous
\* provider, or as a promise continuation once the stack is empty.
CanAnswer(r) ==
  /\ run[r].pc = "fetching"
  /\ stack = IF provider = "sync" THEN r ELSE 0

\* The run ends plain: the last answer was as long as asked, and the core
\* reported completion, if at all, only with the last byte of the file.
StillPlain(rec, n, coreDone) ==
  /\ rec.clean
  /\ n = rec.req.size
  /\ coreDone => rec.offset + n = rec.fileSize

\* A slip that asks for another chunk after finalize().
readNextChunkFinalize_refetch(r, n, coreDone) ==
  /\ CanAnswer(r)
  /\ n \in Returnable(run[r].req)
  /\ n = 0 \/ coreDone
  /\ n = 0 => ~coreDone
  /\ fedBy' = fedBy \cup {r}
  /\ run' = [run EXCEPT ![r] = getChunk(answered(run[r]), run[r].offset + n)]
  /\ ev' = [NoEv EXCEPT !.op = "finalize", !.r = r, !.outcome = "result",
                        !.via = "callback", !.n = n, !.coreDone = coreDone,
                        !.clean = FALSE]
  /\ UNCHANGED <<isAnalyzing, chunkSize, provider, instance, stack, decoded, routeVars, unitVars>>

\* readNextChunk, continueBuffer false: no bytes came (the core is not called),
\* or open_buffer_continue reported bit 0x08; then finalize()
readNextChunkFinalize(r, n, coreDone) ==
  /\ CanAnswer(r)
  /\ n \in Returnable(run[r].req)
  /\ n = 0 \/ coreDone
  /\ n = 0 => ~coreDone
  /\ fedBy' = fedBy \cup {r}
  /\ isAnalyzing' = FALSE
  /\ run' = [run EXCEPT ![r] = EndedRun]
  /\ stack' = 0
  /\ ev' = [NoEv EXCEPT
              !.op = "finalize", !.r = r, !.outcome = "result", !.via = "callback",
              !.inOrder = InOrder(run[r]), !.fed = (fedBy = {}),
              !.n = n, !.coreDone = coreDone,
              !.fileSize = run[r].fileSize,
              !.clean = StillPlain(run[r], n, coreDone),
              !.nFetch = Counted(StillPlain(run[r], n, coreDone), run[r].nFetch)]
  /\ UNCHANGED <<chunkSize, provider, instance, decoded, routeVars, unitVars>>

\* readNextChunk, continueBuffer true: the core wants more; read its seek
\* words, move offset (re-initializing the core on a seek), then getChunk()
readNextChunkContinue(r, n, w) ==
  /\ CanAnswer(r)
  /\ n \in Returnable(run[r].req)
  /\ n > 0
  /\ LET seekTo == openBufferContinueGotoGet(w[1], w[2])
         rec == [answered(run[r]) EXCEPT
                   !.clean = run[r].clean /\ seekTo = -1 /\ n = run[r].req.size]
     IN run' = [run EXCEPT ![r] = getChunk(rec, nextOffset(run[r].offset, n, seekTo))]
  /\ fedBy' = fedBy \cup {r}
  /\ ev' = [NoEv EXCEPT
              !.op = "continue", !.r = r, !.low = w[1], !.high = w[2],
              !.inOrder = InOrder(run[r]), !.fed = (fedBy = {}),
              !.init = IF w = <<-1, -1>> THEN {}
                       ELSE {openBufferContinueGotoGet(w[1], w[2])},
              !.n = IF w = <<-1, -1>> THEN n ELSE 0,
              !.from = IF w = <<-1, -1>> THEN run[r].offset ELSE 0]
  /\ UNCHANGED <<isAnalyzing, chunkSize, provider, instance, stack, decoded, routeVars, unitVars>>

\* A slip that asks for the failed chunk again instead of ending the run.
chunkFailed_retry(r) ==
  /\ CanAnswer(r)
  /\ run' = [run EXCEPT ![r] = getChunk(answered(run[r]), run[r].offset)]
  /\ ev' = [NoEv EXCEPT !.op = "chunkFailed", !.r = r, !.outcome = "fetchError",
                        !.via = "callback"]
  /\ UNCHANGED <<isAnalyzing, chunkSize, provider, instance, fedBy, stack, decoded, routeVars, unitVars>>

\* readChunk threw, or its promise rejected: isAnalyzing = false, callback('', error)
chunkFailed(r) ==
  /\ CanAnswer(r)
  /\ isAnalyzing' = FALSE
  /\ run' = [run EXCEPT ![r] = EndedRun]
  /\ stack' = 0
  /\ ev' = [NoEv EXCEPT !.op = "chunkFailed", !.r = r, !.outcome = "fetchError",
                      !.via = "callback"]
  /\ UNCHANGED <<chunkSize, provider, instance, fedBy, decoded, routeVars, unitVars>>

\* Who catches an exception thrown while a chunk is handled (the core throwing
\* in open_buffer_continue, the seek words, open_buffer_init, or in finalize):
\*   "chunk": dataValue.then(readNextChunk).catch of a promise-returning provider
\*   "size":  fileSizeValue.then(runReadDataLoop).catch, the bottom of the stack
\*            of a synchronous provider's run started from the size promise
\*   "none":  a synchronous provider's run started by analyzeData itself
Catcher(rec) ==
  IF provider = "async" THEN "chunk"
  ELSE IF rec.base = "then" THEN "size" ELSE "none"

\* isAnalyzing after the exception has been handled, flag being its value when
\* the exception was thrown: the chunk catch clears it, the size catch only
\* calls callback(null, error), and nothing happens if nobody catches.
ThrownFlag(rec, flag) ==
  CASE Catcher(rec) = "chunk" -> FALSE
    [] Catcher(rec) = "size" -> AfterCallback(rec.form, flag)
    [] OTHER -> flag

ThrownVia(rec) == IF Catcher(rec) = "none" THEN "throw" ELSE "callback"

ThrownForm(rec) == IF Catcher(rec) = "none" THEN rec.form ELSE "callback"

\* readNextChunk: the core throws while the chunk is submitted or while the
\* driver reads the seek words or re-initializes the core for a seek
coreThrewOnSubmit(r, n) ==
  /\ CanAnswer(r)
  /\ n \in Returnable(run[r].req)
  /\ n > 0
  /\ fedBy' = fedBy \cup {r}
  /\ isAnalyzing' = ThrownFlag(run[r], isAnalyzing)
  /\ run' = [run EXCEPT ![r] = EndedRun]
  /\ stack' = 0
  /\ ev' = [NoEv EXCEPT !.op = "coreThrew", !.r = r, !.outcome = "coreError",
                        !.via = ThrownVia(run[r]), !.inOrder = InOrder(run[r]),
                        !.fed = (fedBy = {}), !.form = ThrownForm(run[r])]
  /\ UNCHANGED <<chunkSize, provider, instance, decoded, routeVars, unitVars>>

\* finalize: open_buffer_finalize, inform or parseResultJson throws; the
\* finally clause clears isAnalyzing before the exception goes on
finalizeThrew(r, n, coreDone) ==
  /\ CanAnswer(r)
  /\ n \in Returnable(run[r].req)
  /\ n = 0 \/ coreDone
  /\ n = 0 => ~coreDone
  /\ fedBy' = fedBy \cup {r}
  /\ isAnalyzing' = ThrownFlag(run[r], FALSE)
  /\ run' = [run EXCEPT ![r] = EndedRun]
  /\ stack' = 0
  /\ ev' = [NoEv EXCEPT !.op = "finalizeThrew", !.r = r, !.outcome = "coreError",
                        !.via = ThrownVia(run[r]), !.inOrder = InOrder(run[r]),
                        !.fed = (fedBy = {}), !.form = ThrownForm(run[r])]
  /\ UNCHANGED <<chunkSize, provider, instance, decoded, routeVars, unitVars>>

\* analyzeData admitted, then size() throws or, the size being a number, the
\* first openBufferInit throws: the exception leaves analyzeData after
\* isAnalyzing = true
ThrowPoints == {"size", "init"}

analyzeDataThrew(r, f, at) ==
  /\ stack = 0
  /\ run[r].pc = "idle"
  /\ \A q \in Runs : q < r => run[q].pc # "idle"
  /\ ~isAnalyzing
  /\ instance' = instance + 1
  /\ isAnalyzing' = TRUE
  /\ fedBy' = IF at = "init" THEN {r} ELSE {}
  /\ run' = [run EXCEPT ![r] = EndedRun]
  /\ ev' = [NoEv EXCEPT !.op = "admittedThrew", !.r = r, !.via = "throw", !.form = f,
                        !.init = IF at = "init" THEN {0} ELSE {},
                        !.outcome = IF at = "init" THEN "coreError" ELSE "sizeError"]
  /\ UNCHANGED <<chunkSize, provider, stack, decoded, routeVars, unitVars>>

\* fileSizeValue.then(runReadDataLoop): the first openBufferInit throws, and
\* the size promise's catch calls callback(null, error)
runReadDataLoopThrew(r) ==
  /\ stack = 0
  /\ run[r].pc = "awaitSize"
  /\ fedBy' = fedBy \cup {r}
  /\ isAnalyzing' = AfterCallback(run[r].form, isAnalyzing)
  /\ run' = [run EXCEPT ![r] = EndedRun]
  /\ ev' = [NoEv EXCEPT !.op = "initThrew", !.r = r, !.outcome = "coreError",
                        !.via = "callback", !.init = {0}]
  /\ UNCHANGED <<chunkSize, provider, instance, stack, decoded, routeVars, unitVars>>

DriverInit ==
  /\ isAnalyzing = FALSE
  /\ chunkSize \in 1 .. MaxChunk
  /\ provider \in Providers
  /\ instance = 0
  /\ fedBy = {}
  /\ run = [r \in Runs |-> IdleRun]
  /\ stack = 0
  /\ ev = NoEv

DriverNext ==
  \/ \E r \in Runs, f \in Forms : analyzeDataRejected(r, f)
  \/ \E r \in Runs, f \in Forms, fs \in 0 .. MaxFileSize : analyzeDataNumber(r, f, fs)
  \/ \E r \in Runs, f \in Forms, fs \in 0 .. MaxFileSize : analyzeDataPromise(r, f, fs)
  \/ \E r \in Runs : runReadDataLoop(r)
  \/ \E r \in Runs : sizeRejected(r)
  \/ \E r \in Runs, n \in 0 .. MaxChunk, d \in BOOLEAN : readNextChunkFinalize(r, n, d)
  \/ \E r \in Runs, n \in 0 .. MaxChunk, w \in SeekWords : readNextChunkContinue(r, n, w)
  \/ \E r \in Runs : chunkFailed(r)
  \/ \E r \in Runs, n \in 1 .. MaxChunk : coreThrewOnSubmit(r, n)
  \/ \E r \in Runs, n \in 0 .. MaxChunk, d \in BOOLEAN : finalizeThrew(r, n, d)
  \/ \E r \in Runs, f \in Forms, at \in ThrowPoints : analyzeDataThrew(r, f, at)
  \/ \E r \in Runs : runReadDataLoopThrew(r)

----------------------------------------------------------------------------
(* The decoder on its own: the core leaves two words, the driver reads them *)

LowWords == {-(2 ^ (WordBits - 1)), -5000, -12, -2, -1, 0, 1, 12, 5000, 2 ^ (WordBits - 1) - 1}
HighWords == {-(2 ^ (WordBits - 1)), -2, -1, 0, 1, 2, 2 ^ (WordBits - 1) - 1}

DecodeIdle == [low |-> 0, high |-> 0, called |-> FALSE, seekTo |-> 0]

DecodeInit ==
  \E l \in LowWords, h \in HighWords :
    decoded = [low |-> l, high |-> h, called |-> FALSE, seekTo |-> 0]

\* const seekTo = this.openBufferContinueGotoGet()
Decode ==
  /\ ~decoded.called
  /\ decoded' = [decoded EXCEPT !.called = TRUE,
                   !.seekTo = openBufferContinueGotoGet(decoded.low, decoded.high)]
  /\ UNCHANGED <<driverVars, routeVars, unitVars>>

----------------------------------------------------------------------------
(* validateUrl (app/lib/server-utils.ts) *)

\* A hostname is the sequence of its dot-separated labels: '127.0.0.1' is
\* <<"127", "0", "0", "1">>, 'localhost' is <<"localhost">>.
LOCALHOST_IPS ==
  {<<"localhost">>, <<"[::1]">>, <<"::1">>, <<"0", "0", "0", "0">>, <<"[::0]">>, <<"::0">>}

META_DATA_HOSTS ==
  {<<"metadata", "google", "internal">>, <<"169", "254", "169", "254">>,
   <<"metadata", "google">>}

\* host.startsWith(prefix + '.'), prefix a sequence of whole labels
startsWith(host, prefix) ==
  /\ Len(host) > Len(prefix)
  /\ \A i \in 1 .. Len(prefix) : host[i] = prefix[i]

\* parseInt(label, 10) for the labels of the model; -1 stands for NaN
parseInt(label) ==
  CASE label = "0" -> 0
    [] label = "1" -> 1
    [] label = "5" -> 5
    [] label = "8" -> 8
    [] label = "15" -> 15
    [] label = "16" -> 16
    [] label = "20" -> 20
    [] label = "31" -> 31
    [] label = "32" -> 32
    [] label = "168" -> 168
    [] label = "169" -> 169
    [] label = "254" -> 254
    [] OTHER -> -1

\* new URL(url).hostname: the host as the URL parser serializes it.  The model
\* writes a host as it stands in the URL text; the parser lower-cases a name,
\* completes a short IPv4 address and writes an IPv6 address in its compressed
\* form.
hostname(url) ==
  CASE url.host = <<"LOCALHOST">> -> <<"localhost">>
    [] url.host = <<"127", "1">> -> <<"127", "0", "0", "1">>
    [] url.host = <<"[::0]">> -> <<"[::]">>
    [] url.host = <<"[0:0:0:0:0:0:0:0]">> -> <<"[::]">>
    [] url.host = <<"[0:0:0:0:0:0:0:1]">> -> <<"[::1]">>
    [] OTHER -> url.host

\* TRUE when validateUrl(url) returns, FALSE when it throws
validateUrl(url) ==
  LET host == hostname(url) IN
  /\ ~(host = <<"localhost">> \/ startsWith(host, <<"127">>) \/ host \in LOCALHOST_IPS)
  /\ host \notin META_DATA_HOSTS
  /\ ~(startsWith(host, <<"10">>) \/ startsWith(host, <<"192", "168">>))
  /\ ~(/\ startsWith(host, <<"172">>)
       /\ LET secondOctet == parseInt(host[2])
          IN secondOctet # -1 /\ secondOctet >= 16 /\ secondOctet <= 31)

----------------------------------------------------------------------------
(* The route handlers and getFileInfo *)

MkUrl(h, p) == [host |-> h, path |-> p]

----------------------------------------------------------------------------
(* validateUrl on its own: a URL is given, the validator returns or throws *)

FirstOctets == {"0", "8", "10", "127", "169", "172", "192"}
SecondOctets == {"0", "15", "16", "20", "31", "32", "168", "254"}

NamedHosts ==
  {<<"localhost">>, <<"LOCALHOST">>, <<"127", "1">>, <<"[::1]">>, <<"[0:0:0:0:0:0:0:1]">>,
   <<"[::]">>, <<"[::0]">>, <<"[0:0:0:0:0:0:0:0]">>,
   <<"metadata", "google", "internal">>, <<"metadata", "google">>,
   <<"example", "com">>, <<"10", "0", "0", "5">>, <<"169", "254", "169", "254">>,
   <<"8", "8", "8", "8">>}

ValidateHosts ==
  NamedHosts \cup {<<a, b, "0", "1">> : a \in FirstOctets, b \in SecondOctets}

ValidateIdle == [url |-> MkUrl(<<>>, ""), called |-> FALSE, threw |-> FALSE]

ValidateInit ==
  \E h \in ValidateHosts :
    validated = [url |-> MkUrl(h, ""), called |-> FALSE, threw |-> FALSE]

\* validateUrl(url)
Validate ==
  /\ ~validated.called
  /\ validated' = [validated EXCEPT !.called = TRUE, !.threw = ~validateUrl(validated.url)]
  /\ UNCHANGED <<driverVars, decoded, rq, netlog, unitVars>>

\* https://drive.google.com/file/d/<id>/view and the download endpoint
\* https://drive.usercontent.google.com/download?id=<id>&export=download&confirm=t
DriveView == MkUrl(<<"drive", "google", "com">>, "view")
DriveDownload == MkUrl(<<"drive", "usercontent", "google", "com">>, "download")

\* resolveGoogleDriveUrl(url): GOOGLE_DRIVE_REGEX matches, or the URL is at the
\* download host already
resolveGoogleDriveUrl(url) ==
  IF url = DriveView
    THEN [url |-> DriveDownload, isGoogleDrive |-> TRUE]
    ELSE IF url.host = DriveDownload.host
      THEN [url |-> url, isGoogleDrive |-> TRUE]
      ELSE [url |-> url, isGoogleDrive |-> FALSE]

\* URLs a client may send.
Urls ==
  {MkUrl(<<"8", "8", "8", "8">>, "file.mp4"),
   MkUrl(<<"example", "com">>, ""),
   MkUrl(<<"localhost">>, "x"),
   MkUrl(<<"127", "0", "0", "1">>, "x"),
   MkUrl(<<"169", "254", "169", "254">>, ""),
   MkUrl(<<"10", "0", "0", "5">>, ""),
   MkUrl(<<"172", "20", "0", "1">>, ""),
   MkUrl(<<"172", "15", "0", "1">>, ""),
   MkUrl(<<"cdn", "example", "com">>, "%E0%A4%A"),
   DriveView}

\* Where an origin may redirect to; response.url of a fetch that follows
\* redirects is the URL asked or one of these.
RedirectTargets ==
  {MkUrl(<<"cdn", "example", "com">>, "a%20b.mkv"),
   MkUrl(<<"example", "com">>, ""),
   MkUrl(<<"169", "254", "169", "254">>, "")}

Finals(u) == {u} \cup RedirectTargets

NoUrl == MkUrl(<<>>, "")
TelegramApi == MkUrl(<<"api", "telegram", "org">>, "sendMessage")

Absent == -1                     \* a header that is missing or empty
Lengths == {Absent, 7}           \* Content-Length values
Totals == {Absent, 9}            \* the total of a Content-Range
Types == {"", "video/mp4"}       \* Content-Type values
Statuses == {200, 206, 404}      \* origin statuses

\* Content-Disposition values: none, the quoted form, the extended form
Dispositions ==
  {"", "attachment; filename=\"a.mkv\"", "attachment; filename*=UTF-8''b%20c.mkv"}

\* What fetch() may give back: a thrown error, or a response.
FailedFetch ==
  [fail |-> TRUE, url |-> NoUrl, status |-> 0, length |-> Absent, type |-> "",
   total |-> Absent, disposition |-> ""]

Responses(finalUrls) ==
  {FailedFetch} \cup
  [fail : {FALSE}, url : finalUrls, status : Statuses, length : Lengths,
   type : Types, total : Totals, disposition : Dispositions]

Ok(resp) == resp.status >= 200 /\ resp.status <= 299

\* The headers of the response handled in the last segment, if it was accepted
NoResp == [status |-> 0, length |-> Absent, type |-> "", total |-> Absent]

\* contentLength and contentType as they were before that response
NoHeld == [contentLength |-> Absent, contentType |-> ""]

\* The headers that the claims are about, and the kind of body, of a Response
NoOut ==
  [acao |-> "", contentDisposition |-> <<>>, acceptRanges |-> "", xProxy |-> "",
   cacheControl |-> "", body |-> "none"]

\* corsHeaders of handleInfoRoute and of handleProxyRoute
corsHeaders == [NoOut EXCEPT !.acao = "*"]

IdleRq ==
  [route |-> "none", pc |-> "idle", method |-> "GET", range |-> FALSE,
   why |-> "none", name |-> <<>>, out |-> NoOut,
   loader |-> [dev |-> FALSE, enabled |-> FALSE, secret |-> FALSE, token |-> "",
               valid |-> FALSE, outcome |-> "none"],
   origin |-> [acao |-> "", acceptRanges |-> "", cacheControl |-> ""],
   target |-> NoUrl, finalUrl |-> NoUrl, contentLength |-> Absent,
   contentType |-> "", contentDisposition |-> "", status |-> 0,
   size |-> 0, filename |-> "", type |-> "",
   anyOk |-> FALSE, held |-> NoHeld, last |-> NoResp]

CanServe == rq.pc = "idle"

Sent(probe, method, url, redirect) ==
  [probe |-> probe, method |-> method, url |-> url, redirect |-> redirect]

Unset(rec) == rec.contentLength = Absent \/ rec.contentType = ""

\* x || y on header values
OrElse(x, y, none) == IF x # none THEN x ELSE y

\* The response an await of fetch gave: the probe's try block reads its
\* headers only if it did not throw and the status is accepted.
seen(rec, resp) ==
  [rec EXCEPT
     !.held = [contentLength |-> rec.contentLength, contentType |-> rec.contentType],
     !.anyOk = rec.anyOk \/ (~resp.fail /\ Ok(resp)),
     !.last = IF ~resp.fail /\ Ok(resp)
                THEN [status |-> resp.status, length |-> resp.length,
                      type |-> resp.type, total |-> resp.total]
                ELSE [NoResp EXCEPT !.status = resp.status]]

\* A slip that reads the size of a HEAD response from its Content-Range only.
takeHead_ignoresLength(rec, resp) ==
  [rec EXCEPT !.contentLength = OrElse(rec.contentLength, resp.total, Absent),
              !.contentDisposition = OrElse(rec.contentDisposition, resp.disposition, ""),
              !.contentType = OrElse(rec.contentType, resp.type, "")]

\* The HEAD probes: values already held win, then the response's headers,
\* then (for the size) the Content-Range total.
takeHead(rec, resp) ==
  LET len == OrElse(OrElse(rec.contentLength, resp.length, Absent), resp.total, Absent)
  IN [rec EXCEPT !.contentLength = len,
                 !.contentDisposition = OrElse(rec.contentDisposition, resp.disposition, ""),
                 !.contentType = OrElse(rec.contentType, resp.type, "")]

\* A slip that lets the Content-Range total of the GET only fill a gap.
takeGet_fillsGap(rec, resp) ==
  [takeHead(rec, resp) EXCEPT !.finalUrl = resp.url]

\* The ranged GET: as the HEAD probes, but a Content-Range total overrides.
takeGet(rec, resp) ==
  LET len == OrElse(resp.total, OrElse(rec.contentLength, resp.length, Absent), Absent)
  IN [rec EXCEPT !.finalUrl = resp.url, !.contentLength = len,
                 !.contentDisposition = OrElse(rec.contentDisposition, resp.disposition, ""),
                 !.contentType = OrElse(rec.contentType, resp.type, "")]

\* decodeURIComponent for the texts of the model; Decodes is FALSE when it throws
Decodes(text) == text # "%E0%A4%A"

decodeURIComponent(text) ==
  CASE text = "a%20b.mkv" -> "a b.mkv"
    [] text = "b%20c.mkv" -> "b c.mkv"
    [] OTHER -> text

\* extractFilename(contentDisposition): the filename the regular expression
\* finds, percent-decoded and without its quotes; '' if there is none
extractFilename(contentDisposition) ==
  CASE contentDisposition = "attachment; filename=\"a.mkv\"" -> decodeURIComponent("a.mkv")
    [] contentDisposition = "attachment; filename*=UTF-8''b%20c.mkv"
         -> decodeURIComponent("b%20c.mkv")
    [] OTHER -> ""

\* The last path segment of a URL, decoded; '' if there is none or if
\* decodeURIComponent throws
pathPart(url) ==
  IF url.path # "" /\ Decodes(url.path) THEN decodeURIComponent(url.path) ELSE ""

\* A slip that prefers the URL given over the final one.
filenameOf_targetFirst(rec) ==
  OrElse(OrElse(extractFilename(rec.contentDisposition), pathPart(rec.target), ""),
         pathPart(rec.finalUrl), "")

\* filename before the literal fallback: the header's, else the final URL's
\* last segment, else the original URL's
filenameOf(rec) ==
  OrElse(OrElse(extractFilename(rec.contentDisposition), pathPart(rec.finalUrl), ""),
         pathPart(rec.target), "")

\* filename.split('.').pop()?.toLowerCase() for the names of the model
extension(filename) ==
  CASE filename = "file.mp4" -> "mp4"
    [] filename \in {"a.mkv", "a b.mkv", "b c.mkv"} -> "mkv"
    [] OTHER -> filename

\* the extension-to-MIME table
mimeTypes(ext) ==
  CASE ext = "mp4" -> "video/mp4"
    [] ext = "mkv" -> "video/x-matroska"
    [] OTHER -> ""

\* A slip that leaves out the inference from the extension.
typeOf_noInference(rec) == rec.contentType

\* contentType, inferred from the filename's extension if still missing
typeOf(rec) ==
  IF rec.contentType = "" /\ filenameOf(rec) # ""
    THEN mimeTypes(extension(filenameOf(rec)))
    ELSE rec.contentType

\* getFileInfo's return, and what its caller does with it:
\*   /info answers 200 with the descriptor;
\*   /telegram sends the reply (sendMessage) and answers 200, or 500 if that throws.
returned(rec, sendOk) ==
  [rec EXCEPT !.pc = "done",
              !.filename = OrElse(filenameOf(rec), "downloaded_file", ""),
              !.type = typeOf(rec),
              !.size = IF rec.contentLength = Absent THEN 0 ELSE rec.contentLength,
              !.status = IF rec.route = "telegram" /\ ~sendOk THEN 500 ELSE 200,
              !.why = "resolved",
              !.out = IF rec.route = "info"
                      THEN [corsHeaders EXCEPT !.cacheControl = "public, max-age=600",
                                               !.body = "descriptor"]
                      ELSE [NoOut EXCEPT !.body = "text"]]

returnedLog(rec) ==
  IF rec.route = "telegram"
    THEN {Sent("sendMessage", "POST", TelegramApi, "follow")}
    ELSE {}

\* Third try: a GET with Range: bytes=0-0 at the final URL, if still missing
thirdTry(rec, sendOk) ==
  IF Unset(rec)
    THEN <<[rec EXCEPT !.pc = "get3", !.held = NoHeld, !.last = NoResp],
           {Sent("get3", "GET", rec.finalUrl, "follow")}>>
    ELSE <<returned(rec, sendOk), returnedLog(rec)>>

\* A slip that sends the second HEAD whenever the final URL differs.
secondTry_always(rec, sendOk) ==
  IF rec.finalUrl # rec.target
    THEN <<[rec EXCEPT !.pc = "head2", !.held = NoHeld, !.last = NoResp],
           {Sent("head2", "HEAD", rec.finalUrl, "manual")}>>
    ELSE thirdTry(rec, sendOk)

\* Second try: a HEAD at the final URL, if it differs and something is missing
secondTry(rec, sendOk) ==
  IF rec.finalUrl # rec.target /\ Unset(rec)
    THEN <<[rec EXCEPT !.pc = "head2", !.held = NoHeld, !.last = NoResp],
           {Sent("head2", "HEAD", rec.finalUrl, "manual")}>>
    ELSE thirdTry(rec, sendOk)

\* getFileInfo(targetUrl) up to its first await: HEAD at targetUrl, following redirects
getFileInfo(route, u) ==
  /\ rq' = [IdleRq EXCEPT !.route = route, !.pc = "head1", !.method = "HEAD",
                          !.target = u, !.finalUrl = u]
  /\ netlog' = {Sent("head1", "HEAD", u, "follow")}

\* handleInfoRoute: no url parameter (400), or new URL(targetUrl) throws (500)
handleInfoRouteInvalid_probes(why) ==
  /\ CanServe
  /\ rq' = [IdleRq EXCEPT !.route = "info", !.pc = "done", !.why = why,
                          !.status = IF why = "missing" THEN 400 ELSE 500,
                          !.out = [corsHeaders EXCEPT !.body = "error"]]
  /\ netlog' = {Sent("head1", "HEAD", NoUrl, "follow")}
  /\ UNCHANGED <<driverVars, decoded, validated, unitVars>>

handleInfoRouteInvalid(why) ==
  /\ CanServe
  /\ rq' = [IdleRq EXCEPT !.route = "info", !.pc = "done", !.why = why,
                          !.status = IF why = "missing" THEN 400 ELSE 500,
                          !.out = [corsHeaders EXCEPT !.body = "error"]]
  /\ netlog' = {}
  /\ UNCHANGED <<driverVars, decoded, validated, unitVars>>

\* handleInfoRoute with a well-formed url parameter
handleInfoRoute(u) ==
  /\ CanServe
  /\ getFileInfo("info", u)
  /\ UNCHANGED <<driverVars, decoded, validated, unitVars>>

\* handleTelegramRoute: no BOT_TOKEN (503), no message text (400)
handleTelegramRouteInvalid(status) ==
  /\ CanServe
  /\ rq' = [IdleRq EXCEPT !.route = "telegram", !.pc = "done", !.method = "POST",
                          !.status = status]
  /\ netlog' = {}
  /\ UNCHANGED <<driverVars, decoded, validated, unitVars>>

\* handleTelegramRoute: the text is no URL; the bot says so (sendMessage)
handleTelegramRouteNotUrl(sendOk) ==
  /\ CanServe
  /\ rq' = [IdleRq EXCEPT !.route = "telegram", !.pc = "done", !.method = "POST",
                          !.status = IF sendOk THEN 200 ELSE 500]
  /\ netlog' = {Sent("sendMessage", "POST", TelegramApi, "follow")}
  /\ UNCHANGED <<driverVars, decoded, validated, unitVars>>

\* handleTelegramRoute with a well-formed URL as the message text
handleTelegramRoute(u) ==
  /\ CanServe
  /\ getFileInfo("telegram", u)
  /\ UNCHANGED <<driverVars, decoded, validated, unitVars>>

\* getFileInfo after the first HEAD
firstTry(resp, sendOk) ==
  /\ rq.pc = "head1"
  /\ rq.route = "telegram" \/ sendOk
  /\ LET rec0 == IF resp.fail THEN seen(rq, resp)
                 ELSE [seen(rq, resp) EXCEPT !.finalUrl = resp.url]
         rec == IF ~resp.fail /\ Ok(resp) THEN takeHead(rec0, resp) ELSE rec0
         nxt == secondTry(rec, sendOk)
     IN rq' = nxt[1] /\ netlog' = netlog \cup nxt[2]
  /\ UNCHANGED <<driverVars, decoded, validated, unitVars>>

\* getFileInfo after the HEAD at the final URL
secondTryDone(resp, sendOk) ==
  /\ rq.pc = "head2"
  /\ rq.route = "telegram" \/ sendOk
  /\ LET rec == IF ~resp.fail /\ Ok(resp) THEN takeHead(seen(rq, resp), resp)
                ELSE seen(rq, resp)
         nxt == thirdTry(rec, sendOk)
     IN rq' = nxt[1] /\ netlog' = netlog \cup nxt[2]
  /\ UNCHANGED <<driverVars, decoded, validated, unitVars>>

\* What the origin answers to the GET with Range: bytes=0-0: the
\* Content-Length of a 206 is the length of its part, one byte; a 200 (the
\* Range ignored) carries the length of the whole resource.
rangedAnswer(resp) ==
  IF resp.status = 206 /\ resp.length # Absent THEN [resp EXCEPT !.length = 1] ELSE resp

\* getFileInfo after the ranged GET
thirdTryDone(resp, sendOk) ==
  /\ rq.pc = "get3"
  /\ rq.route = "telegram" \/ sendOk
  /\ LET got == rangedAnswer(resp)
         rec == IF ~got.fail /\ Ok(got) THEN takeGet(seen(rq, got), got)
                ELSE seen(rq, got)
     IN rq' = returned(rec, sendOk) /\ netlog' = netlog \cup returnedLog(rec)
  /\ UNCHANGED <<driverVars, decoded, validated, unitVars>>

----------------------------------------------------------------------------
(* Content-Disposition of the proxy and fast links
   (app/lib/logger.server.ts, app/components/fastlink-form.tsx) *)

\* A text is the sequence of its characters; the fixed parts of a header
\* ('attachment', '; filename=', "; filename*=UTF-8''") are one element each.

\* the concatenation of a sequence of sequences
RECURSIVE Concat(_)
Concat(ss) == IF ss = <<>> THEN <<>> ELSE Head(ss) \o Concat(Tail(ss))

\* The characters of the model that encodeURIComponent escapes, with the two
\* hexadecimal digits of their code; every other character of the model is
\* one of A-Z a-z 0-9 - _ . ! ~ * ' ( ) and is left as it is.
Escapes ==
  {<<" ", <<"2", "0">>>>, <<"\"", <<"2", "2">>>>, <<"%", <<"2", "5">>>>,
   <<"+", <<"2", "B">>>>, <<"/", <<"2", "F">>>>, <<":", <<"3", "A">>>>,
   <<"=", <<"3", "D">>>>, <<">", <<"3", "E">>>>, <<"?", <<"3", "F">>>>,
   <<"\\", <<"5", "C">>>>}

encodeURIComponent(s) ==
  LET escape(c) == IF \E e \in Escapes : e[1] = c
                   THEN <<"%">> \o (CHOOSE e \in Escapes : e[1] = c)[2]
                   ELSE <<c>>
  IN Concat([i \in DOMAIN s |-> escape(s[i])])

\* decodeURIComponent on a character sequence: threw when a '%' is not
\* followed by the two digits of a code
RECURSIVE decodeURIComponentOf(_)
decodeURIComponentOf(s) ==
  IF s = <<>> THEN [threw |-> FALSE, text |-> <<>>]
  ELSE IF Head(s) # "%"
  THEN LET rest == decodeURIComponentOf(Tail(s))
       IN [threw |-> rest.threw, text |-> <<Head(s)>> \o rest.text]
  ELSE IF Len(s) >= 3 /\ \E e \in Escapes : e[2] = <<s[2], s[3]>>
  THEN LET rest == decodeURIComponentOf(SubSeq(s, 4, Len(s)))
       IN [threw |-> rest.threw,
           text |-> <<(CHOOSE e \in Escapes : e[2] = <<s[2], s[3]>>)[1]>> \o rest.text]
  ELSE [threw |-> TRUE, text |-> <<>>]

\* `${disposition}; filename="${filename.replace(/"/g, '\\"')}"; filename*=UTF-8''${encodeURIComponent(filename)}`
contentDisposition_plainOnly(range, filename) ==
  <<IF range THEN "inline" ELSE "attachment", "; filename=", "\"">>
  \o Concat([i \in DOMAIN filename |->
               IF filename[i] = "\"" THEN <<"\\", "\"">> ELSE <<filename[i]>>])
  \o <<"\"">>

contentDisposition(range, filename) ==
  <<IF range THEN "inline" ELSE "attachment", "; filename=", "\"">>
  \o Concat([i \in DOMAIN filename |->
               IF filename[i] = "\"" THEN <<"\\", "\"">> ELSE <<filename[i]>>])
  \o <<"\"", "; filename*=UTF-8''">>
  \o encodeURIComponent(filename)

\* Filenames: up to MaxName characters, and the name My "Video".mp4
Filenames ==
  UNION {[1 .. n -> {"a", ".", "\"", "\\", "'", "%"}] : n \in 1 .. MaxName}
  \cup {<<"M", "y", " ", "\"", "V", "i", "d", "e", "o", "\"", ".", "m", "p", "4">>}

Idle == [pc |-> "idle"]

\* handleProxyRoute sets the Content-Disposition of a relayed response
setContentDisposition(range, filename) ==
  /\ fin.pc = "idle" /\ disp.pc = "idle" /\ link.pc = "idle"
  /\ disp' = [pc |-> "done", range |-> range, filename |-> filename,
              header |-> contentDisposition(range, filename)]
  /\ UNCHANGED <<driverVars, decoded, routeVars, fin, link, fastLinkForm, history>>

\* Character codes of the characters a URL of the model is written with;
\* "yuml" stands for the character of code 255, "other" for any other
Codes ==
  {<<"h", 104>>, <<"t", 116>>, <<"p", 112>>, <<":", 58>>, <<"/", 47>>,
   <<"a", 97>>, <<"?", 63>>, <<">", 62>>, <<"yuml", 255>>}

Base64 ==
  <<"A", "B", "C", "D", "E", "F", "G", "H", "I", "J", "K", "L", "M", "N", "O", "P",
    "Q", "R", "S", "T", "U", "V", "W", "X", "Y", "Z", "a", "b", "c", "d", "e", "f",
    "g", "h", "i", "j", "k", "l", "m", "n", "o", "p", "q", "r", "s", "t", "u", "v",
    "w", "x", "y", "z", "0", "1", "2", "3", "4", "5", "6", "7", "8", "9", "+", "/">>

\* btoa(url): three characters make four digits of base 64, '=' fills the end
RECURSIVE btoa(_)
btoa(s) ==
  LET code(i) == (CHOOSE c \in Codes : c[1] = s[i])[2]
      digit(n) == Base64[n + 1]
  IN CASE Len(s) = 0 -> <<>>
       [] Len(s) = 1 ->
            <<digit(code(1) \div 4), digit((code(1) % 4) * 16), "=", "=">>
       [] Len(s) = 2 ->
            <<digit(code(1) \div 4), digit((code(1) % 4) * 16 + code(2) \div 16),
              digit((code(2) % 16) * 4), "=">>
       [] OTHER ->
            <<digit(code(1) \div 4), digit((code(1) % 4) * 16 + code(2) \div 16),
              digit((code(2) % 16) * 4 + code(3) \div 64), digit(code(3) % 64)>>
            \o btoa(SubSeq(s, 4, Len(s)))

\* atob(text): threw when a character is no digit of base 64 or a digit is
\* left alone at the end
RECURSIVE atob(_)
atob(s) ==
  LET value(i) == (CHOOSE n \in DOMAIN Base64 : Base64[n] = s[i]) - 1
      char(n) == IF \E c \in Codes : c[2] = n
                 THEN (CHOOSE c \in Codes : c[2] = n)[1]
                 ELSE "other"
      given(i) == i <= Len(s) /\ \E n \in DOMAIN Base64 : Base64[n] = s[i]
      ends(i) == \A j \in i .. Len(s) : s[j] = "=" /\ j <= 4
      first == char(value(1) * 4 + value(2) \div 16)
      second == char((value(2) % 16) * 16 + value(3) \div 4)
      third == char((value(3) % 4) * 64 + value(4))
  IN CASE Len(s) = 0 -> [threw |-> FALSE, text |-> <<>>]
       [] given(1) /\ given(2) /\ ends(3) -> [threw |-> FALSE, text |-> <<first>>]
       [] given(1) /\ given(2) /\ given(3) /\ ends(4) ->
            [threw |-> FALSE, text |-> <<first, second>>]
       [] given(1) /\ given(2) /\ given(3) /\ given(4) ->
            LET rest == atob(SubSeq(s, 5, Len(s)))
            IN [threw |-> rest.threw, text |-> <<first, second, third>> \o rest.text]
       [] OTHER -> [threw |-> TRUE, text |-> <<>>]

\* URLs a link is made for: 'http://a' and up to MaxName more characters
LinkUrls ==
  {<<"h", "t", "t", "p", ":", "/", "/", "a">> \o t :
     t \in UNION {[1 .. n -> {"?", ">", "yuml"}] : n \in 0 .. MaxName}}

\* The path of the link that the form and the bot make:
\* '/p/' + encodeURIComponent(btoa(url)) + '/' + encodeURIComponent(filename)
fastLink(url, filename) ==
  <<"/", "p", "/">> \o encodeURIComponent(btoa(url)) \o <<"/">>
  \o encodeURIComponent(filename)

\* new URL(request.url).pathname.split('/').filter(Boolean): the URL parser
\* drops a segment '.' and lets a segment '..' take the segment before it away
parts(path) ==
  LET RECURSIVE split(_)
      split(p) ==
        IF \A i \in DOMAIN p : p[i] # "/" THEN <<p>>
        ELSE LET slash == CHOOSE i \in DOMAIN p : p[i] = "/" /\ \A j \in 1 .. i - 1 : p[j] # "/"
             IN <<SubSeq(p, 1, slash - 1)>> \o split(SubSeq(p, slash + 1, Len(p)))
      RECURSIVE pathname(_)
      pathname(segments) ==
        LET before == pathname(SubSeq(segments, 1, Len(segments) - 1))
            last == segments[Len(segments)]
        IN IF segments = <<>> THEN <<>>
           ELSE IF last = <<".">> THEN before
           ELSE IF last = <<".", ".">> THEN SubSeq(before, 1, Len(before) - 1)
           ELSE Append(before, last)
  IN SelectSeq(pathname(split(path)), LAMBDA part : part # <<>>)

\* The form or the bot makes the link for a URL and the filename of /info
generateFastLink(by, url, filename) ==
  /\ fin.pc = "idle" /\ disp.pc = "idle" /\ link.pc = "idle"
  /\ link' = [pc |-> "made", by |-> by, url |-> url, filename |-> filename,
              path |-> fastLink(url, filename),
              status |-> 0, targetLink |-> <<>>, name |-> <<>>]
  /\ UNCHANGED <<driverVars, decoded, routeVars, fin, disp, fastLinkForm, history>>

\* handleProxyRoute up to the upstream fetch: status 0 when it goes on to fetch
handleProxyRouteDecode ==
  /\ link.pc = "made"
  /\ LET given == parts(link.path)
         text == decodeURIComponentOf(given[2])
         targetLink == atob(text.text)
         isUrl == /\ Len(targetLink.text) > 7
                  /\ SubSeq(targetLink.text, 1, 7) = <<"h", "t", "t", "p", ":", "/", "/">>
         name == decodeURIComponentOf(given[3])
     IN link' = [link EXCEPT
                   !.pc = "done",
                   !.status = IF Len(given) < 2 THEN 400
                              ELSE IF text.threw \/ targetLink.threw \/ ~isUrl THEN 400
                              ELSE IF Len(given) > 2 /\ name.threw THEN 502
                              ELSE 0,
                   !.targetLink = IF Len(given) < 2 \/ text.threw \/ targetLink.threw
                                  THEN <<>> ELSE targetLink.text,
                   !.name = IF Len(given) > 2 /\ ~name.threw THEN name.text ELSE <<>>]
  /\ UNCHANGED <<driverVars, decoded, routeVars, fin, disp, fastLinkForm, history>>

----------------------------------------------------------------------------
(* handleProxyRoute and the routes together (app/lib/logger.server.ts) *)

ProxyMethods == {"GET", "HEAD", "POST"}

\* Why handleProxyRoute answers without a response of the origin: the method
\* is OPTIONS, the path has fewer than two parts, parts[1] does not decode to
\* a URL, decodeURIComponent(parts[2]) throws, or the upstream fetch throws
proxyErrorStatus_all502(why) ==
  CASE why = "options" -> 200
    [] OTHER -> 502

proxyErrorStatus(why) ==
  CASE why = "options" -> 200
    [] why = "parts" -> 400
    [] why = "link" -> 400
    [] OTHER -> 502

\* handleProxyRoute returns before any fetch
handleProxyRouteNoFetch(method, why) ==
  /\ CanServe
  /\ why = "options" <=> method = "OPTIONS"
  /\ rq' = [IdleRq EXCEPT !.route = "proxy", !.pc = "done", !.method = method,
                          !.why = why, !.status = proxyErrorStatus(why),
                          !.out = [corsHeaders EXCEPT
                                     !.body = IF why = "options" THEN "none" ELSE "text"]]
  /\ netlog' = {}
  /\ UNCHANGED <<driverVars, decoded, validated, unitVars>>

\* handleProxyRoute: fetch(targetLink, {method, headers, redirect: 'follow'});
\* name is the decoded parts[2], <<>> when the path has no third part
handleProxyRoute(method, u, range, name) ==
  /\ CanServe
  /\ rq' = [IdleRq EXCEPT !.route = "proxy", !.pc = "upstream", !.method = method,
                          !.range = range, !.target = u, !.finalUrl = u, !.name = name]
  /\ netlog' = {Sent("proxy", method, u, "follow")}
  /\ UNCHANGED <<driverVars, decoded, validated, unitVars>>

\* status = 206 when a range was asked and the origin said 200 with a Content-Range
proxyStatus_always206(range, resp) ==
  IF range THEN 206 ELSE resp.status

proxyStatus(range, resp) ==
  IF range /\ resp.status = 200 /\ resp.total # Absent THEN 206 ELSE resp.status

\* Headers of the origin that the proxy looks at, '' when the origin sends none
OriginHeaders ==
  [acao : {"", "null"}, acceptRanges : {"", "none"}, cacheControl : {"", "no-store"}]

\* responseHeaders and body of a relayed response
responseHeaders_noDefaults(rec, resp, origin) ==
  [acao |-> "*",
   contentDisposition |-> IF rec.name # <<>> THEN contentDisposition(rec.range, rec.name)
                          ELSE IF resp.disposition # "" THEN <<resp.disposition>>
                          ELSE <<>>,
   acceptRanges |-> origin.acceptRanges,
   xProxy |-> "Cloudflare-Worker-FastLink",
   cacheControl |-> origin.cacheControl,
   body |-> IF rec.method = "HEAD" THEN "none" ELSE "origin"]

responseHeaders(rec, resp, origin) ==
  [acao |-> "*",
   contentDisposition |-> IF rec.name # <<>> THEN contentDisposition(rec.range, rec.name)
                          ELSE IF resp.disposition # "" THEN <<resp.disposition>>
                          ELSE <<>>,
   acceptRanges |-> IF origin.acceptRanges = "" THEN "bytes" ELSE origin.acceptRanges,
   xProxy |-> "Cloudflare-Worker-FastLink",
   cacheControl |-> IF origin.cacheControl = ""
                    THEN "public, max-age=3600, stale-while-revalidate=86400"
                    ELSE origin.cacheControl,
   body |-> IF rec.method = "HEAD" THEN "none" ELSE "origin"]

\* handleProxyRoute after the upstream fetch: relay, or 502 when it threw
handleProxyRouteRelay(resp, origin) ==
  /\ rq.pc = "upstream"
  /\ resp.fail => origin = IdleRq.origin
  /\ ~resp.fail => resp.length = Absent /\ resp.type = ""
  /\ rq' = IF resp.fail
           THEN [rq EXCEPT !.pc = "done", !.why = "fetch",
                           !.status = proxyErrorStatus("fetch"),
                           !.out = [corsHeaders EXCEPT !.body = "text"]]
           ELSE [rq EXCEPT !.pc = "done", !.why = "relay",
                           !.status = proxyStatus(rq.range, resp),
                           !.last = [NoResp EXCEPT !.status = resp.status,
                                                   !.total = resp.total],
                           !.contentDisposition = resp.disposition,
                           !.origin = origin,
                           !.out = responseHeaders(rq, resp, origin)]
  /\ UNCHANGED <<netlog, driverVars, decoded, validated, unitVars>>

\* The handler's Response has been returned: the request and its locals are gone
handleFastLinkRoutesReturn ==
  /\ rq.pc = "done"
  /\ rq' = IdleRq
  /\ netlog' = {}
  /\ UNCHANGED <<driverVars, decoded, validated, unitVars>>

RouteNext ==
  \/ handleFastLinkRoutesReturn
  \/ \E why \in {"missing", "malformed"} : handleInfoRouteInvalid(why)
  \/ \E u \in Urls : handleInfoRoute(u)
  \/ \E st \in {503, 400} : handleTelegramRouteInvalid(st)
  \/ \E ok \in BOOLEAN : handleTelegramRouteNotUrl(ok)
  \/ \E u \in Urls : handleTelegramRoute(u)
  \/ \E resp \in Responses(Finals(rq.target)), ok \in BOOLEAN : firstTry(resp, ok)
  \/ \E resp \in Responses({rq.finalUrl}), ok \in BOOLEAN : secondTryDone(resp, ok)
  \/ \E resp \in Responses(Finals(rq.finalUrl)), ok \in BOOLEAN : thirdTryDone(resp, ok)
  \/ \E m \in ProxyMethods \cup {"OPTIONS"}, why \in {"options", "parts", "link", "name"} :
       handleProxyRouteNoFetch(m, why)
  \/ \E m \in ProxyMethods, u \in Urls, range \in BOOLEAN, name \in {<<>>, <<"a">>} :
       handleProxyRoute(m, u, range, name)
  \/ \E resp \in Responses({rq.target}), origin \in OriginHeaders :
       handleProxyRouteRelay(resp, origin)

----------------------------------------------------------------------------
(* The analyze endpoint (app/routes/api/analyze/route.ts) *)

\* loader up to its first await, or to its return.
\*   dev:     import.meta.env.DEV
\*   enabled: env.ENABLE_TURNSTILE === 'true'
\*   secret:  env.TURNSTILE_SECRET_KEY is set
\*   token:   the CF-Turnstile-Response header, "" when missing
\*   valid:   analyzeSchema.safeParse(...).success
\*   u:       the url parameter
\* rq.loader.outcome is what siteverify said, "none" when it was not asked.
loader(dev, enabled, secret, token, valid, u) ==
  /\ CanServe
  /\ LET secretKey == dev \/ secret
         rec == [IdleRq EXCEPT !.route = "analyze", !.target = u,
                               !.loader = [dev |-> dev, enabled |-> enabled,
                                           secret |-> secret, token |-> token,
                                           valid |-> valid, outcome |-> "none"]]
     IN IF enabled /\ secretKey /\ token = ""
          THEN /\ rq' = [rec EXCEPT !.pc = "done", !.status = 403, !.why = "token"]
               /\ netlog' = {}
        ELSE IF enabled /\ secretKey /\ ~(token = "localhost-mock-token" \/ dev)
          THEN /\ rq' = [rec EXCEPT !.pc = "siteverify"]
               /\ netlog' = {Sent("siteverify", "POST",
                                  MkUrl(<<"challenges", "cloudflare", "com">>,
                                        "turnstile/v0/siteverify"), "follow")}
        ELSE IF ~valid
          THEN /\ rq' = [rec EXCEPT !.pc = "done", !.status = 400, !.why = "params"]
               /\ netlog' = {}
        ELSE /\ rq' = [rec EXCEPT !.pc = "media"]
             /\ netlog' = {Sent("media", "GET", rec.target, "follow")}
  /\ UNCHANGED <<driverVars, decoded, validated, unitVars>>

\* loader after an await.
\*   at "siteverify": the answer is "success" or "failure" (outcome.success),
\*     or "throws" (the fetch, result.json() or the schema's parse threw);
\*   at "media": fetchMediaChunk and analyzeMediaBuffer gave results
\*     ("success") or one of them threw ("throws").
loaderResume(answer) ==
  /\ rq.route = "analyze"
  /\ rq.pc \in {"siteverify", "media"}
  /\ rq.pc = "media" => answer # "failure"
  /\ LET rec == IF rq.pc = "siteverify"
                THEN [rq EXCEPT !.loader.outcome = answer]
                ELSE rq
     IN IF answer = "throws"
          THEN /\ rq' = [rec EXCEPT !.pc = "done", !.status = 500, !.why = "catch"]
               /\ netlog' = netlog
        ELSE IF rq.pc = "media"
          THEN /\ rq' = [rec EXCEPT !.pc = "done", !.status = 200, !.why = "results"]
               /\ netlog' = netlog
        ELSE IF answer = "failure"
          THEN /\ rq' = [rec EXCEPT !.pc = "done", !.status = 403, !.why = "token"]
               /\ netlog' = netlog
        ELSE IF ~rq.loader.valid
          THEN /\ rq' = [rec EXCEPT !.pc = "done", !.status = 400, !.why = "params"]
               /\ netlog' = netlog
        ELSE /\ rq' = [rec EXCEPT !.pc = "media"]
             /\ netlog' = netlog \cup {Sent("media", "GET", rq.target, "follow")}
  /\ UNCHANGED <<driverVars, decoded, validated, unitVars>>

----------------------------------------------------------------------------
(* finalize and parseResultJson (app/lib/logger.server.ts) *)

\* A string is the sequence of its characters: '1920' is <<"1", "9", "2", "0">>.
\* A JavaScript number is written in thousandths, 29.97 as
\* [nan |-> FALSE, milli |-> 29970], and NaN as [nan |-> TRUE, milli |-> 0].

\* the longest prefix of s made of decimal digits
RECURSIVE digitPrefix(_)
digitPrefix(s) ==
  IF s = <<>> \/ Head(s) \notin {"0", "1", "2", "3", "4", "5", "6", "7", "8", "9"}
  THEN <<>>
  ELSE <<Head(s)>> \o digitPrefix(Tail(s))

\* the number that a sequence of decimal digits writes
RECURSIVE decimalValue(_)
decimalValue(d) ==
  LET digits == <<"0", "1", "2", "3", "4", "5", "6", "7", "8", "9">>
      last == (CHOOSE i \in DOMAIN digits : digits[i] = d[Len(d)]) - 1
  IN IF d = <<>> THEN 0 ELSE 10 * decimalValue(SubSeq(d, 1, Len(d) - 1)) + last

\* Number.parseInt(val, 10): the leading digits, NaN when there is none
NumberParseInt(s) ==
  LET int == digitPrefix(s)
  IN IF int = <<>> THEN [nan |-> TRUE, milli |-> 0]
     ELSE [nan |-> FALSE, milli |-> 1000 * decimalValue(int)]

\* Number.parseFloat(val): the leading digits, a point and the digits after it
NumberParseFloat(s) ==
  LET int == digitPrefix(s)
      rest == SubSeq(s, Len(int) + 1, Len(s))
      frac == IF rest # <<>> /\ Head(rest) = "." THEN digitPrefix(Tail(rest)) ELSE <<>>
      digit(i) == IF i <= Len(frac) THEN decimalValue(<<frac[i]>>) ELSE 0
  IN IF int = <<>> /\ frac = <<>> THEN [nan |-> TRUE, milli |-> 0]
     ELSE [nan |-> FALSE,
           milli |-> 1000 * decimalValue(int) + 100 * digit(1) + 10 * digit(2) + digit(3)]

\* The tables of ./MediaInfoResult.js, by the two names the specification gives
INT_FIELDS == {"Width"}

FLOAT_FIELDS == {"FrameRate"}

\* One key of a track with its value: a string (text), or a number (num)
Field(key, kind, text, num) ==
  [key |-> key, kind |-> kind, text |-> text, num |-> [nan |-> FALSE, milli |-> num]]

Fields ==
  {Field("Width", "string", <<"1", "9", "2", "0">>, 0),
   Field("Width", "number", <<>>, 1920000),
   Field("FrameRate", "string", <<"2", "9", ".", "9", "7", "0">>, 0),
   Field("Format", "string", <<"1", "9", "2", "0">>, 0)}

\* A track is the sequence of its entries in key order: '@type' and up to
\* MaxFields other keys; '@type' is the first key, or the second of two
Tracks ==
  LET type == Field("@type", "string", <<"V", "i", "d", "e", "o">>, 0)
      lists == {s \in UNION {[1 .. n -> Fields] : n \in 0 .. MaxFields} :
                  \A i, j \in DOMAIN s : i # j => s[i].key # s[j].key}
  IN {<<type>> \o s : s \in lists} \cup {<<field, type>> : field \in Fields}

\* A JSON text is written as the value it denotes: top is "invalid" for a text
\* that is not JSON, "null" for 'null', "zero" for '0', "object" for '{...}';
\* media and track tell what the object holds under these keys.
Doc(top, media, track, tracks) ==
  [top |-> top, media |-> media, track |-> track, tracks |-> tracks]

NotJson == Doc("invalid", "absent", "absent", <<>>)

Docs ==
  {Doc("null", "absent", "absent", <<>>),
   Doc("zero", "absent", "absent", <<>>),
   Doc("object", "absent", "absent", <<>>),
   Doc("object", "null", "absent", <<>>),
   Doc("object", "string", "absent", <<>>),
   Doc("object", "object", "absent", <<>>),
   Doc("object", "object", "string", <<>>)}
  \cup {Doc("object", "object", "array", t) :
          t \in UNION {[1 .. n -> Tracks] : n \in 0 .. MaxTracks}}

\* What inform() can return: the empty string, a text that is not JSON, a JSON text
EmptyText == [empty |-> TRUE, doc |-> NotJson]

RawTexts == {EmptyText, [empty |-> FALSE, doc |-> NotJson]}
            \cup {[empty |-> FALSE, doc |-> d] : d \in Docs}

\* the body of the loop over Object.entries(track)
newField_noFloat(field) ==
  IF field.kind = "string" /\ field.key \in INT_FIELDS
  THEN [field EXCEPT !.kind = "number", !.text = <<>>, !.num = NumberParseInt(field.text)]
  ELSE field

newField(field) ==
  IF field.kind = "string" /\ field.key \in INT_FIELDS
  THEN [field EXCEPT !.kind = "number", !.text = <<>>, !.num = NumberParseInt(field.text)]
  ELSE IF field.kind = "string" /\ field.key \in FLOAT_FIELDS
  THEN [field EXCEPT !.kind = "number", !.text = <<>>, !.num = NumberParseFloat(field.text)]
  ELSE field

\* tracks.map((track) => ...): '@type' is written first, then the other entries
newTrack(track) ==
  LET type == CHOOSE i \in DOMAIN track : track[i].key = "@type"
      rest == SelectSeq(track, LAMBDA field : field.key # "@type")
  IN <<track[type]>> \o [i \in DOMAIN rest |-> newField(rest[i])]

\* parseResultJson(resultString): result is JSON.parse(resultString); threw
\* tells that the function raised (JSON.parse on a text that is not JSON, or
\* reading result.media of null)
parseResultJson(resultString) ==
  LET result == resultString.doc
  IN IF result.top \in {"invalid", "null"} THEN [threw |-> TRUE, result |-> NotJson]
     ELSE IF result.top # "object" \/ result.media # "object" \/ result.track # "array"
     THEN [threw |-> FALSE, result |-> result]
     ELSE [threw |-> FALSE,
           result |-> [result EXCEPT
                         !.tracks = [i \in DOMAIN result.tracks |-> newTrack(result.tracks[i])]]]

Formats == {"object", "JSON", "text"}

\* What a callback receives as its result: a text, or a parsed value
Result(kind, text, doc) == [kind |-> kind, text |-> text, doc |-> doc]

\* !result in resultCb: '' and 0 are falsy
falsy(result) ==
  \/ result.kind = "text" /\ result.text.empty
  \/ result.kind = "object" /\ result.doc.top \in {"null", "zero"}

FinIdle ==
  [pc |-> "idle", format |-> "object", form |-> "callback", coreFormat |-> "",
   calls |-> <<>>, coreThrew |-> FALSE, raw |-> EmptyText, outcome |-> "none",
   result |-> Result("none", EmptyText, NotJson)]

\* analyzeData is called on an instance with some options.format
finalizeStart(format, f) ==
  /\ fin.pc = "idle" /\ disp.pc = "idle" /\ link.pc = "idle"
  /\ fin' = [fin EXCEPT !.pc = "new", !.format = format, !.form = f]
  /\ UNCHANGED <<driverVars, decoded, routeVars, disp, link, fastLinkForm, history>>

\* new this.mediainfoModule.MediaInfo(format === 'object' ? 'JSON' : format, ...)
instantiateModuleInstance ==
  /\ fin.pc = "new"
  /\ fin' = [fin EXCEPT !.pc = "ready",
                        !.coreFormat = IF fin.format = "object" THEN "JSON" ELSE fin.format]
  /\ UNCHANGED <<driverVars, decoded, routeVars, disp, link, fastLinkForm, history>>

\* finalize(): raw is what inform() returns, failing the core call that throws
\* ("none" when both return).  The caller gets a result or an error: an
\* exception leaves finalize for a catch that calls callback('', error) or for
\* the caller of analyzeData, and resultCb of the promise form rejects when
\* the result is falsy.
finalize(raw, failing) ==
  /\ fin.pc = "ready"
  /\ failing # "none" => raw = EmptyText
  /\ LET parsed == parseResultJson(raw)
         given == IF fin.format = "object"
                  THEN Result("object", EmptyText, parsed.result)
                  ELSE Result("text", raw, NotJson)
         error == \/ failing # "none"
                  \/ fin.format = "object" /\ parsed.threw
                  \/ fin.form = "promise" /\ falsy(given)
     IN fin' = [fin EXCEPT
                  !.pc = "done",
                  !.calls = IF failing = "openBufferFinalize"
                            THEN <<"openBufferFinalize">>
                            ELSE <<"openBufferFinalize", "inform">>,
                  !.coreThrew = failing # "none",
                  !.raw = raw,
                  !.outcome = IF error THEN "error" ELSE "result",
                  !.result = IF error THEN FinIdle.result ELSE given]
  /\ UNCHANGED <<driverVars, decoded, routeVars, disp, link, fastLinkForm, history>>

----------------------------------------------------------------------------
(* useHistory (hooks/use-history) and FastLinkForm
   (app/components/fastlink-form.tsx) *)

\* A URL is a number from 1 on; 0 stands for no URL, no file info, no
\* fast link, no media results.
\* history.list:    the hook's state, newest first; an item is [id, url]
\* history.stored:  the value under STORAGE_KEY, present saying whether the
\*                  key exists
\* history.order:   the URLs added so far, the one added last first
\* history.last:    the call made last
\* Every call ends with the 'fastlink_history_update' event, on which
\* loadHistory sets the list from localStorage.

\* A slip that forgets prev.filter((i) => i.url !== item.url).
addToHistory_noFilter(url) ==
  LET id == CHOOSE i \in 1 .. MaxItems + 1 :
              /\ \A k \in DOMAIN history.list : history.list[k].id # i
              /\ \A j \in 1 .. i - 1 : \E k \in DOMAIN history.list : history.list[k].id = j
      all == <<[id |-> id, url |-> url]>> \o history.list
      updated == SubSeq(all, 1, Min(Len(all), MaxItems))
  IN history' = [list |-> updated, stored |-> updated, present |-> TRUE,
                 order |-> <<url>> \o SelectSeq(history.order, LAMBDA u : u # url),
                 last |-> "add"]

\* addToHistory: the new item gets a fresh id (crypto.randomUUID: here the
\* least id no item of the list has)
addToHistory(url) ==
  LET id == CHOOSE i \in 1 .. MaxItems + 1 :
              /\ \A k \in DOMAIN history.list : history.list[k].id # i
              /\ \A j \in 1 .. i - 1 : \E k \in DOMAIN history.list : history.list[k].id = j
      filtered == SelectSeq(history.list, LAMBDA i : i.url # url)
      all == <<[id |-> id, url |-> url]>> \o filtered
      updated == SubSeq(all, 1, Min(Len(all), MaxItems))
  IN history' = [list |-> updated, stored |-> updated, present |-> TRUE,
                 order |-> <<url>> \o SelectSeq(history.order, LAMBDA u : u # url),
                 last |-> "add"]

removeFromHistory(id) ==
  LET updated == SelectSeq(history.list, LAMBDA item : item.id # id)
  IN history' = [history EXCEPT !.list = updated, !.stored = updated,
                                !.present = TRUE, !.last = "remove"]

clearHistory ==
  history' = [history EXCEPT !.list = <<>>, !.stored = <<>>, !.present = FALSE,
                             !.last = "clear"]

\* handleSubmit up to its await of fetch('/info?url=...').
\*   u:   the URL given (0: the input is empty or does not start with http)
\*   via: the submit button, disabled while isGenerating, or the clipboard
\*        suggestion, offered for a URL other than state.url
handleSubmit(u, via) ==
  /\ via = "submit" => ~fastLinkForm.state.isGenerating
  /\ via = "clipboard" => (u # 0 /\ u # fastLinkForm.state.url)
  /\ fastLinkForm' = IF u = 0
             THEN [fastLinkForm EXCEPT !.state.error = TRUE]
             ELSE [state |-> [url |-> u, fileInfo |-> 0, fastLink |-> 0,
                              mediaResults |-> 0, error |-> FALSE,
                              isGenerating |-> TRUE, isAnalyzing |-> FALSE],
                   pending |-> fastLinkForm.pending \cup {[kind |-> "info", url |-> u]}]
  /\ UNCHANGED <<driverVars, decoded, routeVars, fin, disp, link, history>>

\* handleSubmit after the /info response for req.url: file info, fast link,
\* addToHistory and fetchMediaInfo(url); or the catch
handleSubmitInfo(req, ok) ==
  /\ req \in fastLinkForm.pending
  /\ req.kind = "info"
  /\ IF ok
       THEN /\ fastLinkForm' = [state |-> [fastLinkForm.state EXCEPT !.fileInfo = req.url,
                                                     !.fastLink = req.url,
                                                     !.isGenerating = FALSE,
                                                     !.isAnalyzing = TRUE],
                        pending |-> (fastLinkForm.pending \ {req})
                                      \cup {[kind |-> "analyze", url |-> req.url]}]
            /\ addToHistory(req.url)
       ELSE /\ fastLinkForm' = [state |-> [fastLinkForm.state EXCEPT !.isGenerating = FALSE,
                                                     !.isAnalyzing = FALSE,
                                                     !.error = TRUE],
                        pending |-> fastLinkForm.pending \ {req}]
            /\ history' = history
  /\ UNCHANGED <<driverVars, decoded, routeVars, fin, disp, link>>

\* fetchMediaInfo after the analyze response for req.url: "results" (ok, with
\* results), "empty" (ok, without), "failed" (not ok, or the fetch threw)
fetchMediaInfo(req, answer) ==
  /\ req \in fastLinkForm.pending
  /\ req.kind = "analyze"
  /\ fastLinkForm' = [state |-> [fastLinkForm.state EXCEPT
                           !.mediaResults = IF answer = "results" THEN req.url
                                            ELSE IF answer = "empty" THEN 0 ELSE @,
                           !.isAnalyzing = FALSE],
              pending |-> fastLinkForm.pending \ {req}]
  /\ UNCHANGED <<driverVars, decoded, routeVars, fin, disp, link, history>>

----------------------------------------------------------------------------
(* Specifications *)

\* initialState of the form, and the empty history
UnitIdle ==
  /\ fin = FinIdle /\ disp = Idle /\ link = Idle
  /\ fastLinkForm = [state |-> [url |-> 0, fileInfo |-> 0, fastLink |-> 0, mediaResults |-> 0,
                        error |-> FALSE, isGenerating |-> FALSE, isAnalyzing |-> FALSE],
             pending |-> {}]
  /\ history = [list |-> <<>>, stored |-> <<>>, present |-> FALSE, order |-> <<>>,
                last |-> "none"]

Init ==
  DriverInit /\ decoded = DecodeIdle /\ rq = IdleRq /\ netlog = {} /\ validated = ValidateIdle
  /\ UnitIdle

Next == DriverNext

Spec == Init /\ [][Next]_vars

\* Every pending continuation runs: the size promise settles, every readChunk
\* returns or fails.
Fairness ==
  \A r \in Runs :
    /\ WF_vars(runReadDataLoop(r) \/ sizeRejected(r))
    /\ WF_vars(\/ \E n \in 0 .. MaxChunk, d \in BOOLEAN : readNextChunkFinalize(r, n, d)
               \/ \E n \in 0 .. MaxChunk, w \in SeekWords : readNextChunkContinue(r, n, w)
               \/ chunkFailed(r))

FairSpec == Spec /\ Fairness

DecodeSpecInit == DecodeInit /\ DriverInit /\ chunkSize = 1 /\ provider = "async"
                  /\ rq = IdleRq /\ netlog = {} /\ validated = ValidateIdle /\ UnitIdle

DecodeNext == Decode

DecodeSpec == DecodeSpecInit /\ [][DecodeNext]_vars

RouteInit == DriverInit /\ chunkSize = 1 /\ provider = "async"
             /\ decoded = DecodeIdle /\ rq = IdleRq /\ netlog = {}
             /\ validated = ValidateIdle /\ UnitIdle

ValidateSpecInit == ValidateInit /\ DriverInit /\ chunkSize = 1 /\ provider = "async"
                    /\ decoded = DecodeIdle /\ rq = IdleRq /\ netlog = {} /\ UnitIdle

ValidateNext == Validate

ValidateSpec == ValidateSpecInit /\ [][ValidateNext]_vars

RouteSpec == RouteInit /\ [][RouteNext]_vars

\* The proxy route alone
ProxyNext ==
  \/ handleFastLinkRoutesReturn
  \/ \E m \in ProxyMethods \cup {"OPTIONS"}, why \in {"options", "parts", "link", "name"} :
       handleProxyRouteNoFetch(m, why)
  \/ \E m \in ProxyMethods, u \in Urls, range \in BOOLEAN, name \in {<<>>, <<"a">>} :
       handleProxyRoute(m, u, range, name)
  \/ \E resp \in Responses({rq.target}), origin \in OriginHeaders :
       handleProxyRouteRelay(resp, origin)

ProxySpec == RouteInit /\ [][ProxyNext]_vars

\* The analyze endpoint alone
AnalyzeNext ==
  \/ handleFastLinkRoutesReturn
  \/ \E dev \in BOOLEAN, enabled \in BOOLEAN, secret \in BOOLEAN, valid \in BOOLEAN,
        token \in {"", "localhost-mock-token", "token"},
        u \in {MkUrl(<<"8", "8", "8", "8">>, "file.mp4"), MkUrl(<<"example", "com">>, "")} :
       loader(dev, enabled, secret, token, valid, u)
  \/ \E answer \in {"success", "failure", "throws"} : loaderResume(answer)

AnalyzeSpec == RouteInit /\ [][AnalyzeNext]_vars

\* The form, with two URLs
FormNext ==
  \/ \E u \in 0 .. 2, via \in {"submit", "clipboard"} : handleSubmit(u, via)
  \/ \E req \in fastLinkForm.pending, ok \in BOOLEAN : handleSubmitInfo(req, ok)
  \/ \E req \in fastLinkForm.pending, answer \in {"results", "empty", "failed"} :
       fetchMediaInfo(req, answer)

FormSpec == RouteInit /\ [][FormNext]_vars

\* The history hook, called with one URL more than the history keeps
HistoryNext ==
  \/ \E u \in 1 .. MaxItems + 1 :
       addToHistory(u) /\ UNCHANGED <<driverVars, decoded, routeVars, fin, disp, link, fastLinkForm>>
  \/ \E id \in 1 .. MaxItems + 1 :
       removeFromHistory(id)
         /\ UNCHANGED <<driverVars, decoded, routeVars, fin, disp, link, fastLinkForm>>
  \/ clearHistory /\ UNCHANGED <<driverVars, decoded, routeVars, fin, disp, link, fastLinkForm>>

HistorySpec == RouteInit /\ [][HistoryNext]_vars

UnitInit == DriverInit /\ chunkSize = 1 /\ provider = "async"
            /\ decoded = DecodeIdle /\ rq = IdleRq /\ netlog = {}
            /\ validated = ValidateIdle /\ UnitIdle

\* One function is under test at a time, once
UnitNext ==
  \/ /\ fin.pc = "idle" /\ disp.pc = "idle" /\ link.pc = "idle"
     /\ \E format \in Formats, f \in Forms : finalizeStart(format, f)
  \/ instantiateModuleInstance
  \/ /\ fin.pc = "ready"
     /\ \E raw \in RawTexts, failing \in {"none", "openBufferFinalize", "inform"} :
          finalize(raw, failing)
  \/ /\ fin.pc = "idle" /\ disp.pc = "idle" /\ link.pc = "idle"
     /\ \E range \in BOOLEAN, filename \in Filenames :
          setContentDisposition(range, filename)
  \/ /\ fin.pc = "idle" /\ disp.pc = "idle" /\ link.pc = "idle"
     /\ \E by \in {"form", "bot"}, url \in LinkUrls, filename \in Filenames :
          generateFastLink(by, url, filename)
  \/ handleProxyRouteDecode

UnitSpec == UnitInit /\ [][UnitNext]_vars

----------------------------------------------------------------------------
(* Properties *)

Ceil(a, b) == (a + b - 1) \div b

\* C1: across any interleaving of analyzeData calls on one driver at most one
\* run is in flight, and the core instance is fed by one run only.
C1_AtMostOneRunInFlight ==
  /\ Cardinality({r \in Runs : InFlight(r)}) <= 1
  /\ Cardinality(fedBy) <= 1

\* C2: a call rejected because a run is in flight gets the 'concurrent' error
\* and changes nothing: isAnalyzing stays true, the core instance stays, and
\* every other run's closure (its offset included) stays as it was.
C2_RejectionChangesNothing ==
  [][\A r \in Runs :
       (run[r].pc = "idle" /\ ev'.op = "rejected" /\ ev'.r = r)
         => /\ ev'.outcome = "concurrent"
            /\ isAnalyzing'
            /\ instance' = instance
            /\ fedBy' = fedBy
            /\ \A q \in Runs \ {r} : run'[q] = run[q]]_vars

\* C3: a route handler issues a request to the URL the client supplied only if
\* validateUrl accepts that URL.
C3_ValidatedBeforeFetch ==
  \A e \in netlog : e.url = rq.target => validateUrl(rq.target)

\* C4: after the redirect-following first probe, the second HEAD and the
\* ranged GET go only to a final URL that validateUrl accepts.
C4_FinalUrlRevalidated ==
  \A e \in netlog :
    (e.probe \in {"head2", "get3"} /\ validateUrl(rq.target)) => validateUrl(e.url)

\* C5: every admitted run eventually ends (result or error delivered), whatever
\* the core answers, provided the size promise settles and every fetch returns.
C5_EveryRunEnds ==
  \A r \in Runs : InFlight(r) ~> (run[r].pc = "done")

\* C6: a plain run (no seek, no early completion, every answer as long as
\* asked) calls the provider exactly ceil(fileSize / chunkSize) times before
\* it finalizes.
C6_PlainRunFetchCount ==
  (ev.op = "finalize" /\ ev.clean) => ev.nFetch = Ceil(ev.fileSize, chunkSize)

\* C7: the decoder returns -1 for the words (-1, -1), and otherwise
\* unsigned(low) + high * 2^w; (5000, 0) gives 5000 and (-12, 1) gives
\* (-12 + 2^w) + 2^w.
C7_Decode ==
  decoded.called =>
    /\ decoded.seekTo =
         IF decoded.low = -1 /\ decoded.high = -1
           THEN -1
           ELSE (decoded.low % (2 ^ WordBits)) + decoded.high * (2 ^ WordBits)
    /\ (decoded.low = 5000 /\ decoded.high = 0) => decoded.seekTo = 5000
    /\ (decoded.low = -12 /\ decoded.high = 1)
         => decoded.seekTo = (-12 + 2 ^ WordBits) + 2 ^ WordBits
    /\ (decoded.low < 0 /\ ~(decoded.low = -1 /\ decoded.high = -1))
         => decoded.seekTo = decoded.low + 2 ^ WordBits + decoded.high * (2 ^ WordBits)

C7_Witness ==
  decoded.called /\ decoded.low = -12 /\ decoded.high = 1

\* C8 as claimed: when the core's seek words after a submitted chunk are both
\* -1, the driver fetches no further chunk and finalizes.
C8_NoSeekFinalizes ==
  (ev.op = "continue" /\ ev.low = -1 /\ ev.high = -1) => run[ev.r].pc = "done"

\* C8 amended: when the core has not reported completion and its seek words
\* after a submitted chunk are both -1, the driver advances offset by the bytes
\* just submitted and calls the provider again at that offset.
C8_NoSeekContinues ==
  (ev.op = "continue" /\ ev.low = -1 /\ ev.high = -1)
    => /\ run[ev.r].pc = "fetching"
       /\ run[ev.r].offset = ev.from + ev.n
       /\ run[ev.r].req.offset = ev.from + ev.n

C8_Witness ==
  /\ ev.op = "continue" /\ ev.low = -1 /\ ev.high = -1
  /\ ev.n > 0 /\ ev.from > 0

\* C9: every request (offset, size) given to the provider satisfies
\* offset + size <= fileSize, whatever the core has asked for.
C9_RequestWithinFile ==
  \A r \in Runs :
    run[r].pc = "fetching" => run[r].req.offset + run[r].req.size <= run[r].fileSize

C9_Witness ==
  /\ ev.op = "continue" /\ ev.low = 1 /\ ev.high = 0
  /\ run[ev.r].pc = "fetching"
  /\ run[ev.r].req.offset = 1
  /\ run[ev.r].req.size > 0
  /\ run[ev.r].req.offset + run[ev.r].req.size = run[ev.r].fileSize

\* C10: the provider is never called with a size <= 0 or an offset < 0.
C10_NoEmptyRequest ==
  \A r \in Runs :
    run[r].pc = "fetching" => (run[r].req.size > 0 /\ run[r].req.offset >= 0)

\* C11: when the provider throws or rejects, or the core throws while a chunk
\* is submitted, the run ends at once with exactly that error delivered (to the
\* callback, or as the exception leaving analyzeData), no fetch of the run is
\* left outstanding, and an ended run never fetches again.
C11_FailureEndsRun ==
  /\ [](ev.op \in {"chunkFailed", "coreThrew"} =>
          /\ run[ev.r] = EndedRun
          /\ ev.outcome = (IF ev.op = "chunkFailed" THEN "fetchError" ELSE "coreError")
          /\ ev.via \in {"callback", "throw"})
  /\ [][\A r \in Runs : run[r].pc = "done" => run'[r] = run[r]]_vars

C11_Witness ==
  /\ ev.op = "coreThrew" /\ provider = "sync" /\ ev.via = "callback"
  /\ run[ev.r].pc = "done"

\* C12: whenever a run has ended (result, fetch error, core error at
\* initialization, submission or finalization, or no file size), isAnalyzing
\* is false.
C12_EndedRunClearsFlag ==
  (ev.outcome # "none" /\ ev.op # "rejected") => ~isAnalyzing

\* C13: within a run at most one readChunk call is unanswered, a run is
\* fetching exactly when one is, and every chunk handled is the answer to the
\* readChunk call at the run's current offset.
C13_SequentialFetches ==
  /\ \A r \in Runs :
       /\ run[r].pending <= 1
       /\ run[r].pc = "fetching" <=> run[r].pending = 1
  /\ ev.op \in {"continue", "finalize", "coreThrew", "finalizeThrew"} => ev.inOrder

C13_Witness ==
  /\ ev.op = "continue" /\ ev.low = 1 /\ ev.high = 0 /\ ev.inOrder
  /\ run[ev.r].pending = 1 /\ run[ev.r].req.offset = 1

\* C14: validateUrl throws for every URL whose hostname is localhost, a 127.
\* address, a loopback or unspecified IPv6 literal, 0.0.0.0, a metadata host,
\* or an address in 10/8, 192.168/16 or 172.16-31; it returns for 172.15.0.1,
\* 172.32.0.1 and 8.8.8.8.
C14_ValidateUrl ==
  validated.called =>
    LET h == hostname(validated.url)
        second == IF Len(h) >= 2 THEN parseInt(h[2]) ELSE -1
    IN /\ (\/ h = <<"localhost">>
            \/ (Len(h) = 4 /\ h[1] = "127")
            \/ h \in {<<"[::1]">>, <<"[::]">>, <<"0", "0", "0", "0">>}
            \/ h \in {<<"metadata", "google", "internal">>, <<"metadata", "google">>,
                      <<"169", "254", "169", "254">>}
            \/ (Len(h) = 4 /\ h[1] = "10")
            \/ (Len(h) = 4 /\ h[1] = "192" /\ h[2] = "168")
            \/ (Len(h) = 4 /\ h[1] = "172" /\ second >= 16 /\ second <= 31))
          => validated.threw
       /\ h \in {<<"172", "15", "0", "1">>, <<"172", "32", "0", "1">>, <<"8", "8", "8", "8">>}
          => ~validated.threw

\* The probes of getFileInfo among the requests sent, and whether the request
\* served has come back from getFileInfo
Probes == {e.probe : e \in netlog} \cap {"head1", "head2", "get3"}

Resolved == rq.pc = "done" /\ rq.route \in {"info", "telegram"} /\ rq.target # NoUrl

C16_ProbeOrder ==
  [][/\ rq'.pc = "head1" => netlog' = {Sent("head1", "HEAD", rq'.target, "follow")}
     /\ (rq'.pc = "head2" /\ rq.pc # "head2")
          => /\ rq.pc = "head1"
             /\ Unset(rq')
             /\ rq'.finalUrl # rq'.target
             /\ netlog' \ netlog = {Sent("head2", "HEAD", rq'.finalUrl, "manual")}
     /\ (rq'.pc = "get3" /\ rq.pc # "get3")
          => /\ rq.pc \in {"head1", "head2"}
             /\ Unset(rq')
             /\ netlog' \ netlog = {Sent("get3", "GET", rq'.finalUrl, "follow")}
     /\ (rq.pc = "head1" /\ rq'.contentLength # Absent /\ rq'.contentType # "")
          => /\ rq'.pc = "done"
             /\ {e \in netlog' : e.probe # "sendMessage"}
                  = {Sent("head1", "HEAD", rq'.target, "follow")}]_vars

C16_Witness ==
  /\ Resolved /\ rq.route = "info" /\ Cardinality(netlog) = 1
  /\ rq.contentLength # Absent /\ rq.contentType # "" /\ rq.finalUrl # rq.target

\* C17: for a URL that redirects, when the first HEAD gave no size and the
\* HEAD at the final URL gives a Content-Length, the descriptor has that size,
\* the type the redirected origin gave, and, no Content-Disposition given, the
\* filename of the final URL's path.
C17_PostRedirectValues ==
  (/\ Resolved /\ Probes = {"head1", "head2"}
   /\ rq.finalUrl # rq.target
   /\ rq.held.contentLength = Absent /\ rq.last.length # Absent)
    => /\ rq.size = rq.last.length
       /\ rq.type = (IF rq.held.contentType # "" THEN rq.held.contentType ELSE rq.last.type)
       /\ rq.type # ""
       /\ (rq.contentDisposition = "" /\ pathPart(rq.finalUrl) # "")
            => rq.filename = pathPart(rq.finalUrl)

C17_Witness ==
  /\ Resolved /\ Probes = {"head1", "head2"}
  /\ rq.target = MkUrl(<<"8", "8", "8", "8">>, "file.mp4")
  /\ rq.finalUrl = MkUrl(<<"cdn", "example", "com">>, "a%20b.mkv")
  /\ rq.held.contentLength = Absent /\ rq.last.length = 7
  /\ rq.contentDisposition = "" /\ rq.filename = "a b.mkv" /\ rq.size = 7

\* C18: when the ranged GET is answered 200 or 206 with a Content-Range total,
\* the reported size is that total, whatever size the HEAD probes had recorded.
C18_RangeTotalOverrides ==
  (Resolved /\ "get3" \in Probes /\ rq.last.total # Absent)
    => (rq.last.status \in {200, 206} /\ rq.size = rq.last.total)

C18_Witness ==
  /\ Resolved /\ "get3" \in Probes
  /\ rq.held.contentLength = 7 /\ rq.last.total = 9 /\ rq.size = 9

C20_DriveLinkRewritten ==
  \A e \in netlog :
    e.probe \in {"head1", "head2", "get3"}
      => (e.url # DriveView /\ (e.probe = "head1" => e.url = resolveGoogleDriveUrl(rq.target).url))

\* finalize has returned a value parsed from a text with the media/track shape
Normalized ==
  /\ fin.pc = "done"
  /\ fin.format = "object"
  /\ fin.outcome = "result"
  /\ fin.raw.doc.track = "array"

Range(s) == {s[i] : i \in DOMAIN s}

keysOf(track) == {track[i].key : i \in DOMAIN track}

valueOf(track, key) == track[CHOOSE i \in DOMAIN track : track[i].key = key]

\* C21: parseResultJson keeps the number and the order of the tracks and the
\* key set of each track; in each track a string under a key of the integer
\* table becomes the number that base-10 integer parsing gives, a string
\* under a key of the float table the number that float parsing gives, and
\* '@type' and every other value are unchanged.  '1920' under Width becomes
\* 1920 and '29.970' under FrameRate becomes 29.97.
C21_ParseResultJson ==
  Normalized =>
    LET old == fin.raw.doc.tracks
        new == fin.result.doc.tracks
    IN /\ [fin.result.doc EXCEPT !.tracks = old] = fin.raw.doc
       /\ Len(new) = Len(old)
       /\ \A t \in DOMAIN old :
            /\ Len(new[t]) = Len(old[t])
            /\ keysOf(new[t]) = keysOf(old[t])
            /\ \A key \in keysOf(old[t]) :
                 LET was == valueOf(old[t], key)
                     is == valueOf(new[t], key)
                 IN CASE was.kind = "string" /\ key \in INT_FIELDS ->
                           is = [was EXCEPT !.kind = "number", !.text = <<>>, !.num = NumberParseInt(was.text)]
                      [] was.kind = "string" /\ key \in FLOAT_FIELDS ->
                           is = [was EXCEPT !.kind = "number", !.text = <<>>, !.num = NumberParseFloat(was.text)]
                      [] OTHER -> is = was
            /\ Field("Width", "string", <<"1", "9", "2", "0">>, 0) \in Range(old[t])
                 => Field("Width", "number", <<>>, 1920000) \in Range(new[t])
            /\ Field("FrameRate", "string", <<"2", "9", ".", "9", "7", "0">>, 0) \in Range(old[t])
                 => Field("FrameRate", "number", <<>>, 29970) \in Range(new[t])

C21_Witness ==
  /\ Normalized
  /\ Len(fin.raw.doc.tracks) = 2
  /\ \E t \in DOMAIN fin.raw.doc.tracks :
       /\ Field("Width", "number", <<>>, 1920000) \in Range(fin.result.doc.tracks[t])
       /\ Field("FrameRate", "number", <<>>, 29970) \in Range(fin.result.doc.tracks[t])
       /\ fin.result.doc.tracks[t] # fin.raw.doc.tracks[t]
  /\ \E t \in DOMAIN fin.raw.doc.tracks :
       /\ fin.raw.doc.tracks[t][1].key # "@type"
       /\ Field("Format", "string", <<"1", "9", "2", "0">>, 0) \in Range(fin.result.doc.tracks[t])

\* C22: when the format is 'object' and the text of the core is not JSON, or
\* is JSON without the media/track shape, the run completes and the caller
\* receives the value that was not normalized, not an error.
C22_MalformedResultReturned ==
  (/\ fin.pc = "done"
   /\ ~fin.coreThrew
   /\ fin.format = "object"
   /\ fin.raw.doc.track # "array")
  => /\ fin.outcome = "result"
     /\ fin.result = IF fin.raw.doc.top = "invalid"
                     THEN Result("text", fin.raw, NotJson)
                     ELSE Result("object", EmptyText, fin.raw.doc)

\* C23: finalize calls the core's finalize and then inform; for the format
\* 'object' the caller is given the normalized result, for every other
\* format the text that the core returned, unchanged.
C23_FinalizeDelivers ==
  (fin.pc = "done" /\ ~fin.coreThrew)
  => /\ fin.calls = <<"openBufferFinalize", "inform">>
     /\ fin.format = "object" /\ fin.outcome = "result"
          => fin.result = Result("object", EmptyText, parseResultJson(fin.raw).result)
     /\ fin.format # "object"
          => fin.outcome = "result" /\ fin.result = Result("text", fin.raw, NotJson)

\* A client that reads Content-Disposition as RFC 6266 tells: the quoted
\* string ends at the first quote that no backslash precedes, a backslash
\* makes the next character literal, and nothing but another parameter may
\* follow; the value of filename* is percent-decoded and is preferred when
\* every character of it is allowed (RFC 5987 allows neither ' nor a quote,
\* a backslash or a space unescaped).
RECURSIVE closingQuote(_, _)
closingQuote(h, i) ==
  IF i > Len(h) THEN 0
  ELSE IF h[i] = "\\" THEN closingQuote(h, i + 2)
  ELSE IF h[i] = "\"" THEN i
  ELSE closingQuote(h, i + 1)

RECURSIVE unquoted(_)
unquoted(s) ==
  IF s = <<>> THEN <<>>
  ELSE IF Head(s) = "\\" THEN <<s[2]>> \o unquoted(SubSeq(s, 3, Len(s)))
  ELSE <<Head(s)>> \o unquoted(Tail(s))

clientFilename(h) ==
  LET close == closingQuote(h, 4)
      ext == SubSeq(h, close + 2, Len(h))
      extOk == /\ ~decodeURIComponentOf(ext).threw
               /\ \A i \in DOMAIN ext : ext[i] \notin {"'", "\"", "\\", " "}
  IN IF Len(h) < 4 \/ h[2] # "; filename=" \/ h[3] # "\"" \/ close = 0
     THEN [found |-> FALSE, name |-> <<>>]
     ELSE IF close = Len(h)
     THEN [found |-> TRUE, name |-> unquoted(SubSeq(h, 4, close - 1))]
     ELSE IF h[close + 1] # "; filename*=UTF-8''"
     THEN [found |-> FALSE, name |-> <<>>]
     ELSE IF extOk
     THEN [found |-> TRUE, name |-> decodeURIComponentOf(ext).text]
     ELSE [found |-> TRUE, name |-> unquoted(SubSeq(h, 4, close - 1))]

\* C28: for every filename, a client that reads the generated
\* Content-Disposition header as RFC 6266 tells finds exactly that filename.
C28_DispositionRoundTrip ==
  disp.pc = "done" => clientFilename(disp.header) = [found |-> TRUE, name |-> disp.filename]

\* C29: the proxy, given the link that the form or the bot makes for a URL
\* and a filename, goes on to fetch exactly that URL and names exactly that
\* filename.
C29_LinkRoundTrip ==
  link.pc = "done"
  => /\ link.status = 0
     /\ link.targetLink = link.url
     /\ link.name = link.filename

\* The proxy has relayed a response of the origin
Relayed == rq.route = "proxy" /\ rq.pc = "done" /\ rq.why = "relay"

\* C24, as claimed: every relayed response, with or without a filename part
\* in the path, has a Content-Disposition that is 'inline' when the client
\* sent Range and 'attachment' otherwise, and that carries a filename in the
\* quoted form and in the UTF-8 form.
C24_DispositionOnEveryRelay ==
  Relayed =>
    /\ rq.out.contentDisposition # <<>>
    /\ rq.out.contentDisposition[1] = IF rq.range THEN "inline" ELSE "attachment"
    /\ {"; filename=", "; filename*=UTF-8''"} \subseteq Range(rq.out.contentDisposition)

\* C24, amended: a relayed response for a path with a filename part has the
\* Content-Disposition 'inline' when the client sent Range and 'attachment'
\* otherwise, with the filename in the quoted form and in the UTF-8 form;
\* for a path without a filename part the proxy sets none and the header of
\* the origin, if any, is relayed as it is.
C24_DispositionWithFilename ==
  Relayed =>
    IF rq.name # <<>>
    THEN rq.out.contentDisposition =
           <<IF rq.range THEN "inline" ELSE "attachment", "; filename=", "\"">>
           \o rq.name \o <<"\"", "; filename*=UTF-8''">> \o rq.name
    ELSE rq.out.contentDisposition =
           IF rq.contentDisposition = "" THEN <<>> ELSE <<rq.contentDisposition>>

C24_Witness ==
  /\ Relayed
  /\ rq.name # <<>>
  /\ rq.range
  /\ rq.contentDisposition # ""
  /\ rq.out.contentDisposition[1] = "inline"

\* C25: the status the client sees is the status of the origin, except that
\* it is 206 when the client sent Range and the origin answered 200 with a
\* Content-Range; without a Range from the client it is never changed.
C25_ProxyStatus ==
  Relayed =>
    /\ rq.status = IF rq.range /\ rq.last.status = 200 /\ rq.last.total # Absent
                   THEN 206
                   ELSE rq.last.status
    /\ ~rq.range => rq.status = rq.last.status

C25_Witness ==
  /\ Relayed
  /\ rq.range
  /\ rq.last.status = 200
  /\ rq.last.total # Absent
  /\ rq.status = 206

\* C26: every response of /p/, the answers to OPTIONS and the 400 and 502
\* included, has Access-Control-Allow-Origin: *; a relayed response also has
\* Accept-Ranges (bytes only when the origin sent none), X-Proxy-Service, and
\* Cache-Control (the origin's when it sent one, else the proxy's default).
C26_ProxyHeaders ==
  (rq.route = "proxy" /\ rq.pc = "done") =>
    /\ rq.out.acao = "*"
    /\ Relayed =>
         /\ rq.out.acceptRanges =
              IF rq.origin.acceptRanges = "" THEN "bytes" ELSE rq.origin.acceptRanges
         /\ rq.out.xProxy = "Cloudflare-Worker-FastLink"
         /\ rq.out.cacheControl =
              IF rq.origin.cacheControl = ""
              THEN "public, max-age=3600, stale-while-revalidate=86400"
              ELSE rq.origin.cacheControl

C26_Witness ==
  /\ Relayed
  /\ rq.origin.acao = "null"
  /\ rq.origin.acceptRanges = "none"
  /\ rq.origin.cacheControl = ""
  /\ rq.out.acceptRanges = "none"
  /\ rq.out.cacheControl # ""

\* C27: when the upstream fetch fails the proxy answers 502 and relays no
\* body of the origin; when the encoded link cannot be decoded or is no URL
\* it answers 400, not 502.
C27_ProxyErrors ==
  (rq.route = "proxy" /\ rq.pc = "done") =>
    /\ rq.why = "fetch" => rq.status = 502 /\ rq.out.body # "origin"
    /\ rq.why = "link" => rq.status = 400 /\ netlog = {}

C27_Witness ==
  /\ rq.route = "proxy"
  /\ rq.pc = "done"
  /\ rq.why = "fetch"
  /\ rq.status = 502
  /\ netlog # {}

\* C30: /info answers 400 with an error body when the url is missing, an
\* error status with an error body when it is malformed, and otherwise 200
\* with the descriptor and a Cache-Control of positive max-age; it sends no
\* probe for a missing or malformed url.
C30_InfoAnswers ==
  (rq.route = "info" /\ rq.pc = "done") =>
    \/ /\ rq.why = "missing"
       /\ rq.status = 400
       /\ rq.out.body = "error"
       /\ netlog = {}
    \/ /\ rq.why = "malformed"
       /\ rq.status >= 400
       /\ rq.out.body = "error"
       /\ netlog = {}
    \/ /\ rq.why = "resolved"
       /\ rq.status = 200
       /\ rq.out.body = "descriptor"
       /\ rq.out.cacheControl = "public, max-age=600"
       /\ netlog # {}

C30_Witness ==
  /\ rq.route = "info"
  /\ rq.pc = "done"
  /\ rq.why = "resolved"
  /\ rq.status = 200
  /\ Probes = {"head1", "head2", "get3"}

\* C31: the first request of a run is at offset 0; after a chunk of n bytes
\* with no seek asked for, the next request is at the previous offset + n, n
\* being the bytes that came; after a seek to s, earlier or later than the
\* current offset, the core is re-initialized at s and the next request is at s.
C31_OffsetFollowsCore ==
  /\ (ev.op \in {"admitted", "sizeResolved"} /\ run[ev.r].pc = "fetching")
       => (run[ev.r].req.offset = 0 /\ ev.init = {0})
  /\ (ev.op = "continue" /\ ev.low = -1 /\ ev.high = -1)
       => /\ run[ev.r].pc = "fetching"
          /\ run[ev.r].req.offset = ev.from + ev.n
          /\ ev.init = {}
  /\ (ev.op = "continue" /\ ~(ev.low = -1 /\ ev.high = -1))
       => LET s == (ev.low % (2 ^ WordBits)) + ev.high * (2 ^ WordBits)
          IN /\ run[ev.r].pc = "fetching"
             /\ run[ev.r].req.offset = s
             /\ run[ev.r].offset = s
             /\ ev.init = {s}

\* a short read (1 byte of 2 asked for) followed at offset 1, with no seek
C31_Witness ==
  /\ ev.op = "continue" /\ ev.low = -1 /\ ev.high = -1
  /\ chunkSize = 2 /\ ev.n = 1 /\ ev.from = 0
  /\ run[ev.r].req.offset = 1

\* C32: the driver has one live core instance at a time: it is replaced only
\* by an admitted start (the prior one disposed), the replacement is
\* initialized at offset 0 before any chunk is submitted to it, and every core
\* call goes to the live instance.
C32_OneLiveInstance ==
  /\ []((ev.op = "admitted" /\ run[ev.r].pc = "fetching") => ev.init = {0})
  /\ []((ev.op \in {"continue", "coreThrew"} \/ (ev.op = "finalize" /\ ev.coreDone))
          => ~ev.fed)
  /\ [][instance' # instance
          => (instance' = instance + 1 /\ ev'.op \in {"admitted", "admittedThrew"})]_vars

\* C33: a run goes idle -> (waiting for the size) -> fetching -> ended and
\* never back; an answer of zero bytes, or the core reporting completion for
\* the chunk submitted, finalizes the run in that same segment; finalize
\* happens at most once per run, and an ended run fetches and submits nothing.
C33_RunOrder ==
  /\ []((ev.op \in {"finalize", "finalizeThrew"}) => run[ev.r] = EndedRun)
  /\ []((ev.op = "finalize") => ((ev.n = 0) # ev.coreDone))
  /\ [][\A r \in Runs :
          LET rank(pc) == CASE pc = "idle" -> 0 [] pc = "awaitSize" -> 1
                            [] pc = "fetching" -> 2 [] OTHER -> 3
          IN /\ rank(run'[r].pc) >= rank(run[r].pc)
             /\ run[r].pc = "done" => (run'[r] = run[r] /\ ev'.r # r)
             /\ (ev'.r = r /\ ev'.op \in {"finalize", "finalizeThrew"})
                  => run[r].pc = "fetching"]_vars

\* a run ended by a zero-byte answer after one chunk had been submitted
C33_Witness ==
  /\ ev.op = "finalize" /\ ev.n = 0 /\ ~ev.coreDone
  /\ run[ev.r].pc = "done" /\ ev.fileSize > 0 /\ ev.nFetch > 1

\* C34: every admitted run reports exactly one outcome to its caller: when it
\* ends, its callback has been called once (in the promise form: the promise
\* has been settled once), whatever the provider and the kind of size.
C34_OneOutcome ==
  (ev.outcome # "none" /\ ev.op # "rejected")
    => (ev.via = "callback" \/ (ev.via = "throw" /\ ev.form = "promise"))

\* C35: the size getFileInfo returns is 0 or the total size the origin
\* disclosed (the Content-Length of a full response, or a Content-Range
\* total); it is never the length of the one-byte body of the bytes=0-0 probe.
C35_SizeIsTotal ==
  Resolved => (rq.size # 1 /\ rq.size \in {0} \cup ((Lengths \cup Totals) \ {Absent}))

\* C36: the proxy sends a request to the origin only for a client GET or HEAD
\* whose link decodes to a URL: an OPTIONS request, an undecodable link and
\* any other client method send nothing; a HEAD request relays no body.
C36_UpstreamOnlyForGetHead ==
  rq.route = "proxy" =>
    /\ netlog # {} => (rq.method \in {"GET", "HEAD"} /\ rq.why \notin {"options", "parts", "link"})
    /\ \A e \in netlog : e.method = rq.method /\ e.url = rq.target
    /\ (Relayed /\ rq.method = "HEAD") => rq.out.body = "none"

\* C37: outside development mode, with Turnstile enabled and its secret key
\* set, the analyze endpoint starts the media fetch only for a request whose
\* token siteverify confirmed and whose parameters are valid; a missing or
\* unconfirmed token is answered 403 and invalid parameters 400, with no media
\* fetch.
C37_VerifiedBeforeFetch ==
  (rq.route = "analyze" /\ ~rq.loader.dev /\ rq.loader.enabled /\ rq.loader.secret)
    => /\ (\E e \in netlog : e.probe = "media")
            => (rq.loader.outcome = "success" /\ rq.loader.valid)
       /\ (rq.pc = "done" /\ (rq.loader.token = "" \/ rq.loader.outcome = "failure"))
            => (rq.status = 403 /\ netlog \subseteq {e \in netlog : e.probe = "siteverify"})
       /\ (rq.pc = "done" /\ rq.loader.outcome = "success" /\ ~rq.loader.valid)
            => (rq.status = 400 /\ \A e \in netlog : e.probe # "media")

\* C38: the file info, the fast link and the media results the form shows
\* belong to the URL in state.url, and isAnalyzing is true exactly while the
\* analysis request for that URL is outstanding, under any interleaving of
\* submissions and responses.
C38_FormShowsCurrentUrl ==
  /\ fastLinkForm.state.fileInfo \in {0, fastLinkForm.state.url}
  /\ fastLinkForm.state.fastLink \in {0, fastLinkForm.state.url}
  /\ fastLinkForm.state.mediaResults \in {0, fastLinkForm.state.url}
  /\ fastLinkForm.state.isAnalyzing
       <=> ([kind |-> "analyze", url |-> fastLinkForm.state.url] \in fastLinkForm.pending)

\* C39: after any sequence of addToHistory, removeFromHistory and
\* clearHistory from an empty history, the history has at most MAX_ITEMS
\* items, no two items share a url (or an id), the items are in the order
\* they were added, the last added first, and localStorage holds the list in
\* memory (no key after clearHistory).
C39_HistoryInvariant ==
  LET list == history.list
      kept == SelectSeq(history.order, LAMBDA u : \E k \in DOMAIN list : list[k].url = u)
  IN /\ Len(list) <= MaxItems
     /\ \A j, k \in DOMAIN list : j # k => (list[j].url # list[k].url /\ list[j].id # list[k].id)
     /\ [k \in DOMAIN list |-> list[k].url] = kept
     /\ history.last = "add" => (list # <<>> /\ list[1].url = history.order[1])
     /\ IF history.present THEN history.stored = list ELSE list = <<>>
     /\ history.last = "clear" => ~history.present

\* a full history after an addition that pushed the oldest item out
C39_Witness ==
  /\ history.last = "add"
  /\ Len(history.list) = MaxItems
  /\ Len(history.order) > MaxItems
  /\ history.stored = history.list

====
